---- MODULE Spec2Model ----
(***************************************************************************)
(* Model of update-api.js: the generator that scans sypnex-api.js for      *)
(* method definitions and rewrites the sypnexApiMethods block of           *)
(* src/extension.ts.                                                       *)
(*                                                                         *)
(* A text is a sequence of one-character strings.  The regular expressions *)
(* of the script are operators over such sequences that return what the    *)
(* backtracking matcher of JavaScript returns (leftmost match, greedy and  *)
(* lazy quantifiers in their priority order).                              *)
(***************************************************************************)
EXTENDS Integers, Sequences, FiniteSets, TLC

(***************************************************************************)
(* Characters and character classes                                        *)
(***************************************************************************)
NL == "\n"

\* the grave accent, which a TLA+ string cannot hold on its own
Backtick == "grave"

LowerCase == {"a","b","c","d","e","f","g","h","i","j","k","l","m",
              "n","o","p","q","r","s","t","u","v","w","x","y","z"}

UpperCase == {"A","B","C","D","E","F","G","H","I","J","K","L","M",
              "N","O","P","Q","R","S","T","U","V","W","X","Y","Z"}

Digits == {"0","1","2","3","4","5","6","7","8","9"}

\* \s of the patterns, and the characters String.prototype.trim removes
IsSpace(c) == c \in {" ", "\t", "\n", "\r"}

\* [a-zA-Z_$]
IsIdStart(c) == c \in LowerCase \cup UpperCase \cup {"_", "$"}

\* [a-zA-Z0-9_$]
IsIdChar(c) == IsIdStart(c) \/ c \in Digits

(***************************************************************************)
(* String primitives of JavaScript used by the script                      *)
(***************************************************************************)
\* the pieces f[lo], ..., f[hi] one after the other
RECURSIVE ConcatRange(_, _, _)
ConcatRange(f, lo, hi) ==
    IF lo > hi THEN <<>>
    ELSE IF lo = hi THEN f[lo]
    ELSE LET mid == (lo + hi) \div 2
         IN  ConcatRange(f, lo, mid) \o ConcatRange(f, mid + 1, hi)

Flatten(pieces) == ConcatRange(pieces, 1, Len(pieces))

\* the text as one string value (for comparison with string literals)
RECURSIVE StrRange(_, _, _)
StrRange(s, lo, hi) ==
    IF lo > hi THEN ""
    ELSE IF lo = hi THEN s[lo]
    ELSE LET mid == (lo + hi) \div 2
         IN  StrRange(s, lo, mid) \o StrRange(s, mid + 1, hi)

Str(s) == StrRange(s, 1, Len(s))

\* the first of a set of positions, 0 when the set is empty
First(S) == IF S = {} THEN 0 ELSE CHOOSE x \in S : \A y \in S : x <= y

\* the characters of s from position p (1-based) to the end
From(s, p) == SubSeq(s, p, Len(s))

\* pattern text lit occurs in s at position p
StartsAt(s, p, lit) ==
    /\ p >= 1
    /\ p + Len(lit) - 1 <= Len(s)
    /\ SubSeq(s, p, p + Len(lit) - 1) = lit

\* String.prototype.startsWith
startsWith(s, lit) == StartsAt(s, 1, lit)

\* String.prototype.includes
includes(s, lit) == \E p \in 1..Len(s) : StartsAt(s, p, lit)

\* String.prototype.indexOf from position p, 1-based; 0 when lit does not occur
IndexFrom(s, p, lit) == First({q \in p..Len(s) : StartsAt(s, q, lit)})

\* first position >= p that holds no white space (Len(s) + 1 at the end)
RECURSIVE SkipSpace(_, _)
SkipSpace(s, p) ==
    IF p <= Len(s) /\ IsSpace(s[p]) THEN SkipSpace(s, p + 1) ELSE p

\* last position <= p that holds no white space (0 when there is none)
RECURSIVE SkipSpaceBack(_, _)
SkipSpaceBack(s, p) ==
    IF p >= 1 /\ IsSpace(s[p]) THEN SkipSpaceBack(s, p - 1) ELSE p

\* String.prototype.trim
trim(s) == SubSeq(s, SkipSpace(s, 1), SkipSpaceBack(s, Len(s)))

\* String.prototype.split on a one-character separator
RECURSIVE split(_, _)
split(s, sep) ==
    LET p == IndexFrom(s, 1, <<sep>>)
    IN  IF p = 0 THEN <<s>>
        ELSE <<SubSeq(s, 1, p - 1)>> \o split(From(s, p + 1), sep)

\* Array.prototype.join
RECURSIVE join(_, _)
join(parts, sep) ==
    IF parts = <<>> THEN <<>>
    ELSE IF Len(parts) = 1 THEN parts[1]
    ELSE parts[1] \o sep \o join(Tail(parts), sep)

\* s.replace(/\r\n/g, '\n')
NormalizeLineEndings(s) ==
    Flatten([i \in 1..Len(s) |->
                IF StartsAt(s, i, <<"\r", "\n">>) THEN <<>> ELSE <<s[i]>>])

(***************************************************************************)
(* The regular expressions of extractMethodsFromApi                        *)
(***************************************************************************)
Async == <<"a","s","y","n","c">>
DocOpen == <<"/","*","*">>
DocClose == <<"*","/">>

NoMatch == [found |-> FALSE]

\* first position >= p that holds no identifier character
RECURSIVE IdEnd(_, _)
IdEnd(s, p) ==
    IF p <= Len(s) /\ IsIdChar(s[p]) THEN IdEnd(s, p + 1) ELSE p

\* ([a-zA-Z_$][a-zA-Z0-9_$]*)\s*\(([^)]*)\)\s*\{ anchored at p.  Every
\* quantifier is followed by a character its class excludes, so the greedy
\* choice is the only one that can succeed.
DefinitionAt(s, p, isAsync) ==
    IF ~(p <= Len(s) /\ IsIdStart(s[p])) THEN NoMatch
    ELSE LET q == IdEnd(s, p)
             open == SkipSpace(s, q)
         IN  IF ~StartsAt(s, open, <<"(">>) THEN NoMatch
             ELSE LET close == IndexFrom(s, open + 1, <<")">>)
                      brace == SkipSpace(s, close + 1)
                  IN  IF close = 0 \/ ~StartsAt(s, brace, <<"{">>) THEN NoMatch
                      ELSE [found |-> TRUE,
                            isAsync |-> isAsync,
                            name |-> SubSeq(s, p, q - 1),
                            params |-> SubSeq(s, open + 1, close - 1),
                            end |-> brace + 1]

\* a matcher that never looks for the `async` marker
MethodAtNeverAsync(s, p) == DefinitionAt(s, p, FALSE)

\* (async\s+)?([a-zA-Z_$][a-zA-Z0-9_$]*)\s*\(([^)]*)\)\s*\{ anchored at p:
\* the optional group is tried first, and given up when the rest fails.
MethodAt(s, p) ==
    LET withAsync ==
            IF StartsAt(s, p, Async) /\ p + 5 <= Len(s) /\ IsSpace(s[p + 5])
            THEN DefinitionAt(s, SkipSpace(s, p + 5), TRUE)
            ELSE NoMatch
    IN  IF withAsync.found THEN withAsync ELSE DefinitionAt(s, p, FALSE)

\* (\/\*\*[\s\S]*?\*\/)\s*(async\s+)?... anchored at p, the comment's lazy
\* body ending at the `*/` at position e or, when the rest fails there, at
\* the next `*/` after it.
RECURSIVE JsdocCloseFrom(_, _, _)
JsdocCloseFrom(s, p, e) ==
    LET c == IndexFrom(s, e, DocClose)
    IN  IF c = 0 THEN NoMatch
        ELSE LET m == MethodAt(s, SkipSpace(s, c + 2))
             IN  IF m.found
                 THEN [found |-> TRUE,
                       jsdoc |-> SubSeq(s, p, c + 1),
                       isAsync |-> m.isAsync,
                       name |-> m.name,
                       params |-> m.params,
                       end |-> m.end]
                 ELSE JsdocCloseFrom(s, p, c + 1)

\* jsdocMethodPattern.exec with lastIndex = from - 1: the leftmost match
RECURSIVE jsdocMethodPattern(_, _)
jsdocMethodPattern(s, from) ==
    LET p == IndexFrom(s, from, DocOpen)
    IN  IF p = 0 THEN NoMatch
        ELSE LET m == JsdocCloseFrom(s, p, p + 3)
             IN  IF m.found THEN m ELSE jsdocMethodPattern(s, p + 1)

\* (?<!\/\*\*[\s\S]*?\*\/\s*) at p: no comment `/** ... */` ends before p
\* with only white space between its end and p
LookbehindFails(s, p) ==
    LET c == SkipSpaceBack(s, p - 1)
    IN  /\ c >= 2
        /\ StartsAt(s, c - 1, DocClose)
        /\ \E q \in 1..(c - 4) : StartsAt(s, q, DocOpen)

\* simpleMethodPattern.exec with lastIndex = from - 1: the leftmost match
simpleMethodPattern(s, from) ==
    LET p == First({q \in from..Len(s) :
                        ~LookbehindFails(s, q) /\ MethodAt(s, q).found})
    IN  IF p = 0 THEN NoMatch ELSE MethodAt(s, p)

(***************************************************************************)
(* generateMethodDescription                                               *)
(***************************************************************************)
\* the object literal `descriptions`: method name -> description
descriptions ==
    [
     init |->
       <<"I","n","i","t","i","a","l","i","z","e"," ","t","h","e"," ","S","y","p","n","e","x","A","P","I"," ","i","n","s","t","a","n","c","e">>,
     getSetting |->
       <<"G","e","t"," ","a","n"," ","a","p","p","l","i","c","a","t","i","o","n"," ","s","e","t","t","i","n","g"," ","v","a","l","u","e">>,
     setSetting |->
       <<"S","e","t"," ","a","n"," ","a","p","p","l","i","c","a","t","i","o","n"," ","s","e","t","t","i","n","g"," ","v","a","l","u","e">>,
     getAllSettings |->
       <<"G","e","t"," ","a","l","l"," ","a","p","p","l","i","c","a","t","i","o","n"," ","s","e","t","t","i","n","g","s">>,
     deleteSetting |->
       <<"D","e","l","e","t","e"," ","a","n"," ","a","p","p","l","i","c","a","t","i","o","n"," ","s","e","t","t","i","n","g">>,
     getVirtualFileStats |->
       <<"G","e","t"," ","v","i","r","t","u","a","l"," ","f","i","l","e"," ","s","y","s","t","e","m"," ","s","t","a","t","i","s","t","i","c","s">>,
     listVirtualFiles |->
       <<"L","i","s","t"," ","f","i","l","e","s"," ","i","n"," ","v","i","r","t","u","a","l"," ","f","i","l","e"," ","s","y","s","t","e","m">>,
     readVirtualFile |->
       <<"R","e","a","d"," ","a"," ","f","i","l","e"," ","f","r","o","m"," ","v","i","r","t","u","a","l"," ","f","i","l","e"," ","s","y","s","t","e","m">>,
     writeVirtualFile |->
       <<"W","r","i","t","e"," ","a"," ","f","i","l","e"," ","t","o"," ","v","i","r","t","u","a","l"," ","f","i","l","e"," ","s","y","s","t","e","m">>,
     deleteVirtualItem |->
       <<"D","e","l","e","t","e"," ","a"," ","f","i","l","e"," ","o","r"," ","f","o","l","d","e","r"," ","f","r","o","m"," ","v","i","r","t","u","a","l"," ","f","i","l","e"," ","s","y","s","t","e","m">>,
     connectSocket |->
       <<"C","o","n","n","e","c","t"," ","t","o"," ","a"," ","W","e","b","S","o","c","k","e","t">>,
     sendMessage |->
       <<"S","e","n","d"," ","a"," ","m","e","s","s","a","g","e"," ","t","h","r","o","u","g","h"," ","W","e","b","S","o","c","k","e","t">>,
     isInitialized |->
       <<"C","h","e","c","k"," ","i","f"," ","t","h","e"," ","A","P","I"," ","i","s"," ","i","n","i","t","i","a","l","i","z","e","d">>,
     getAppId |->
       <<"G","e","t"," ","t","h","e"," ","c","u","r","r","e","n","t"," ","a","p","p","l","i","c","a","t","i","o","n"," ","I","D">>,
     showNotification |->
       <<"S","h","o","w"," ","a"," ","n","o","t","i","f","i","c","a","t","i","o","n"," ","t","o"," ","t","h","e"," ","u","s","e","r">>,
     logInfo |->
       <<"L","o","g"," ","a","n"," ","i","n","f","o"," ","m","e","s","s","a","g","e">>,
     logError |->
       <<"L","o","g"," ","a","n"," ","e","r","r","o","r"," ","m","e","s","s","a","g","e">>,
     executeTerminalCommand |->
       <<"E","x","e","c","u","t","e"," ","a"," ","t","e","r","m","i","n","a","l"," ","c","o","m","m","a","n","d">>,
     readVirtualFileText |->
       <<"R","e","a","d"," ","a"," ","t","e","x","t"," ","f","i","l","e"," ","f","r","o","m"," ","v","i","r","t","u","a","l"," ","f","i","l","e"," ","s","y","s","t","e","m">>,
     readVirtualFileJSON |->
       <<"R","e","a","d"," ","a"," ","J","S","O","N"," ","f","i","l","e"," ","f","r","o","m"," ","v","i","r","t","u","a","l"," ","f","i","l","e"," ","s","y","s","t","e","m">>,
     writeVirtualFileJSON |->
       <<"W","r","i","t","e"," ","a"," ","J","S","O","N"," ","f","i","l","e"," ","t","o"," ","v","i","r","t","u","a","l"," ","f","i","l","e"," ","s","y","s","t","e","m">>,
     createVirtualFolder |->
       <<"C","r","e","a","t","e"," ","a"," ","f","o","l","d","e","r"," ","i","n"," ","v","i","r","t","u","a","l"," ","f","i","l","e"," ","s","y","s","t","e","m">>,
     createVirtualFile |->
       <<"C","r","e","a","t","e"," ","a"," ","f","i","l","e"," ","i","n"," ","v","i","r","t","u","a","l"," ","f","i","l","e"," ","s","y","s","t","e","m">>,
     getVirtualItemInfo |->
       <<"G","e","t"," ","i","n","f","o","r","m","a","t","i","o","n"," ","a","b","o","u","t"," ","a"," ","v","i","r","t","u","a","l"," ","f","i","l","e"," ","s","y","s","t","e","m"," ","i","t","e","m">>,
     virtualItemExists |->
       <<"C","h","e","c","k"," ","i","f"," ","a"," ","v","i","r","t","u","a","l"," ","f","i","l","e"," ","s","y","s","t","e","m"," ","i","t","e","m"," ","e","x","i","s","t","s">>
    ]

\* ` method from Sypnex API`
GenericSuffix == <<" ","m","e","t","h","o","d"," ","f","r","o","m"," ","S","y","p","n","e","x"," ","A","P","I">>

\* The property names every object literal inherits from Object.prototype
\* whose value is a function: descriptions[name] is that function, which is
\* truthy, so the `||` does not fall through to the generic phrase.
InheritedNames ==
    {"constructor", "toString", "toLocaleString", "valueOf", "hasOwnProperty",
     "isPrototypeOf", "propertyIsEnumerable"}

\* what a template literal makes of an inherited built-in function
NativeFunctionText(methodName) ==
    <<"f","u","n","c","t","i","o","n"," ">> \o methodName
        \o <<"(",")"," ","{"," ","[","n","a","t","i","v","e"," ","c","o","d","e","]"," ","}">>

\* descriptions[methodName] || `${methodName} method from Sypnex API`
generateMethodDescription(methodName) ==
    IF Str(methodName) \in DOMAIN descriptions
    THEN descriptions[Str(methodName)]
    ELSE IF Str(methodName) \in InheritedNames
    THEN NativeFunctionText(methodName)
    ELSE methodName \o GenericSuffix

(***************************************************************************)
(* extractMethodsFromApi                                                   *)
(***************************************************************************)
\* `jsdoc: jsdocComment || null`: the empty text and null coincide
Null == <<>>

\* [^@\n*]
IsDescChar(c) == c \notin {"@", "\n", "*"}

\* first position >= p that holds no description character
RECURSIVE DescEnd(_, _)
DescEnd(s, p) ==
    IF p <= Len(s) /\ IsDescChar(s[p]) THEN DescEnd(s, p + 1) ELSE p

\* \/\*\*\s*\n?\s*\*?\s*([^@\n*]+) anchored at the `/**` at p.  The prefix
\* \s*\n?\s*\*?\s* can stop at any position of the white space after `/**`
\* and, when a `*` follows that white space, at any position of the white
\* space after the `*`; the greedy quantifiers give the later stops first,
\* so the capture starts at the last stop that holds a description
\* character and runs as far as the class allows.
DescMatchAt(s, p) ==
    LET w == SkipSpace(s, p + 3)
        stops == ((p + 3)..w) \cup
                 (IF StartsAt(s, w, <<"*">>)
                  THEN (w + 1)..SkipSpace(s, w + 1) ELSE {})
        good == {k \in stops : k <= Len(s) /\ IsDescChar(s[k])}
    IN  IF good = {} THEN NoMatch
        ELSE LET k == CHOOSE x \in good : \A y \in good : y <= x
             IN  [found |-> TRUE, capture |-> SubSeq(s, k, DescEnd(s, k) - 1)]

\* jsdocComment.match(/\/\*\*\s*\n?\s*\*?\s*([^@\n*]+)/): the leftmost match
RECURSIVE descMatch(_, _)
descMatch(s, from) ==
    LET p == IndexFrom(s, from, DocOpen)
    IN  IF p = 0 THEN NoMatch
        ELSE LET m == DescMatchAt(s, p)
             IN  IF m.found THEN m ELSE descMatch(s, p + 1)

\* .replace(/'/g, "\\'").replace(/"/g, '\\"')
EscapeQuotes(s) ==
    Flatten([i \in 1..Len(s) |->
                IF s[i] \in {"'", "\""} THEN <<"\\", s[i]>> ELSE <<s[i]>>])

\* .replace(/\n/g, ' ').replace(/\s+/g, ' ')
NormalizeSpace(s) ==
    Flatten([i \in 1..Len(s) |->
                IF ~IsSpace(s[i]) THEN <<s[i]>>
                ELSE IF i > 1 /\ IsSpace(s[i - 1]) THEN <<>>
                ELSE <<" ">>])

\* lines 30-41: the description of a documented method
\* lines 31-41 without the test `descMatch[1].trim()` of line 34
JsdocDescriptionUnchecked(methodName, jsdocComment) ==
    LET m == descMatch(jsdocComment, 1)
    IN  IF m.found
        THEN NormalizeSpace(EscapeQuotes(trim(m.capture)))
        ELSE generateMethodDescription(methodName)

\* lines 31-41
JsdocDescription(methodName, jsdocComment) ==
    LET m == descMatch(jsdocComment, 1)
    IN  IF m.found /\ trim(m.capture) # <<>>
        THEN NormalizeSpace(EscapeQuotes(trim(m.capture)))
        ELSE generateMethodDescription(methodName)

\* the keyword list of the name filter
ExcludedKeywords ==
    {"if", "for", "while", "catch", "try", "switch", "function", "const",
     "let", "var", "return", "not", "assign"}

\* /^[a-zA-Z_$][a-zA-Z0-9_$]*$/.test(methodName)
IsIdentifier(name) ==
    /\ name # <<>>
    /\ IsIdStart(name[1])
    /\ \A i \in 1..Len(name) : IsIdChar(name[i])

\* the filter without its `!methods.some(m => m.name === methodName)`
AcceptsDuplicates(methods, methodName) ==
    /\ methodName # <<>>
    /\ ~startsWith(methodName, <<"_">>)
    /\ Str(methodName) # "constructor"
    /\ Str(methodName) \notin ExcludedKeywords
    /\ IsIdentifier(methodName)

\* the filter without its tests of the underscore, `constructor` and the keywords
AcceptsExcluded(methods, methodName) ==
    /\ methodName # <<>>
    /\ IsIdentifier(methodName)
    /\ ~\E i \in 1..Len(methods) : methods[i].name = methodName

\* lines 44-49 and 90-95: the filter both passes apply before methods.push
Accepts(methods, methodName) ==
    /\ methodName # <<>>
    /\ ~startsWith(methodName, <<"_">>)
    /\ Str(methodName) # "constructor"
    /\ Str(methodName) \notin ExcludedKeywords
    /\ IsIdentifier(methodName)
    /\ ~\E i \in 1..Len(methods) : methods[i].name = methodName

\* every match jsdocMethodPattern.exec returns in the loop of line 24
RECURSIVE JsdocMatches(_, _)
JsdocMatches(s, from) ==
    LET m == jsdocMethodPattern(s, from)
    IN  IF m.found THEN <<m>> \o JsdocMatches(s, m.end) ELSE <<>>

\* lines 25-58: the body of the first loop for one match
PushJsdocMethod(methods, m) ==
    IF Accepts(methods, m.name)
    THEN Append(methods,
                [name |-> m.name,
                 params |-> trim(m.params),
                 isAsync |-> m.isAsync,
                 description |-> JsdocDescription(m.name, m.jsdoc),
                 jsdoc |-> m.jsdoc])
    ELSE methods

\* the second pass putting its descriptor at the head of the list
PushSimpleMethodFirst(methods, m) ==
    IF Accepts(methods, m.name)
    THEN <<[name |-> m.name,
            params |-> trim(m.params),
            isAsync |-> m.isAsync,
            description |-> generateMethodDescription(m.name),
            jsdoc |-> Null]>> \o methods
    ELSE methods

\* the second pass putting its descriptor in the place of one of the same name
PushSimpleMethodOverwrites(methods, m) ==
    LET bare == [name |-> m.name,
                 params |-> trim(m.params),
                 isAsync |-> m.isAsync,
                 description |-> generateMethodDescription(m.name),
                 jsdoc |-> Null]
    IN  IF AcceptsDuplicates(methods, m.name)
        THEN IF \E k \in 1..Len(methods) : methods[k].name = m.name
             THEN [k \in 1..Len(methods) |->
                      IF methods[k].name = m.name THEN bare ELSE methods[k]]
             ELSE Append(methods, bare)
        ELSE methods

\* lines 85-104: the body of the inner loop of the second pass for one match
PushSimpleMethod(methods, m) ==
    IF Accepts(methods, m.name)
    THEN Append(methods,
                [name |-> m.name,
                 params |-> trim(m.params),
                 isAsync |-> m.isAsync,
                 description |-> generateMethodDescription(m.name),
                 jsdoc |-> Null])
    ELSE methods

\* the first loop run over its matches in turn
RECURSIVE PushJsdocMethods(_, _)
PushJsdocMethods(methods, matches) ==
    IF matches = <<>> THEN methods
    ELSE PushJsdocMethods(PushJsdocMethod(methods, Head(matches)), Tail(matches))

\* the inner loop of the second pass run over its matches in turn
RECURSIVE PushSimpleMethods(_, _)
PushSimpleMethods(methods, matches) ==
    IF matches = <<>> THEN methods
    ELSE PushSimpleMethods(PushSimpleMethod(methods, Head(matches)), Tail(matches))

\* lines 14-59: fullContent scanned by the first loop
JsdocPass(fullContent) ==
    PushJsdocMethods(<<>>, JsdocMatches(fullContent, 1))

\* lines 71-76: the lines the second pass skips (`&&` binds tighter than `||`)
Skipped(line) ==
    \/ startsWith(line, <<"i","f">>)
    \/ startsWith(line, <<"f","o","r">>)
    \/ startsWith(line, <<"w","h","i","l","e">>)
    \/ startsWith(line, <<"c","a","t","c","h">>)
    \/ startsWith(line, <<"t","r","y">>)
    \/ startsWith(line, <<"s","w","i","t","c","h">>)
    \/ (includes(line, <<"=">>) /\ ~includes(line, <<"=",">">>))
    \/ startsWith(line, <<"/","/">>)
    \/ startsWith(line, <<"/","*">>)
    \/ includes(line, <<"O","b","j","e","c","t",".","a","s","s","i","g","n">>)
    \/ includes(line, <<"c","o","n","s","o","l","e",".">>)
    \/ (includes(line, <<":">>) /\ ~includes(line, <<"(">>))

\* every match simpleMethodPattern.exec returns in the loop of line 84
RECURSIVE SimpleMatches(_, _)
SimpleMatches(s, from) ==
    LET m == simpleMethodPattern(s, from)
    IN  IF m.found THEN <<m>> \o SimpleMatches(s, m.end) ELSE <<>>

\* lines.slice(i, i + 3).join('\n'), the lines numbered from 1
Context(lines, i) ==
    join(SubSeq(lines, i, IF i + 2 <= Len(lines) THEN i + 2 ELSE Len(lines)), <<NL>>)

\* the matches of the second pass, line after line
RECURSIVE BareMatchesFrom(_, _)
BareMatchesFrom(lines, i) ==
    IF i > Len(lines) THEN <<>>
    ELSE (IF Skipped(trim(lines[i])) THEN <<>>
          ELSE SimpleMatches(Context(lines, i), 1))
         \o BareMatchesFrom(lines, i + 1)

BareMatches(fullContent) == BareMatchesFrom(split(fullContent, NL), 1)

\* lines 61-109: the second loop, continuing the list of the first
BarePass(methods, fullContent) ==
    PushSimpleMethods(methods, BareMatches(fullContent))

extractMethodsFromApi(apiContent) ==
    LET fullContent == NormalizeLineEndings(apiContent)
    IN  BarePass(JsdocPass(fullContent), fullContent)

(***************************************************************************)
(* generateMethodSignature                                                 *)
(***************************************************************************)
\* lines 119-130: the callback of params.map
ParamEntry(param) ==
    LET trimmed == trim(param)
    IN  IF trimmed = <<>> THEN <<>>
        ELSE IF includes(trimmed, <<"=">>)
        THEN trim(split(trimmed, "=")[1]) \o <<"?",":"," ","a","n","y">>
        ELSE trimmed \o <<":"," ","a","n","y">>

\* lines 119-130: .map(...).filter(p => p)
RECURSIVE ParamEntries(_)
ParamEntries(parts) ==
    IF parts = <<>> THEN <<>>
    ELSE (IF ParamEntry(Head(parts)) = <<>> THEN <<>>
          ELSE <<ParamEntry(Head(parts))>>)
         \o ParamEntries(Tail(parts))

\* the function with the two return types exchanged
generateMethodSignatureSwapped(method) ==
    method.name \o <<"(">>
    \o (IF method.params # <<>>
        THEN join(ParamEntries(split(method.params, ",")), <<",", " ">>)
        ELSE <<>>)
    \o <<")">>
    \o (IF method.isAsync
        THEN <<":"," ","a","n","y">>
        ELSE <<":"," ","P","r","o","m","i","s","e","<","a","n","y",">">>)

\* lines 114-144
generateMethodSignature(method) ==
    method.name \o <<"(">>
    \o (IF method.params # <<>>
        THEN join(ParamEntries(split(method.params, ",")), <<",", " ">>)
        ELSE <<>>)
    \o <<")">>
    \o (IF method.isAsync
        THEN <<":"," ","P","r","o","m","i","s","e","<","a","n","y",">">>
        ELSE <<":"," ","a","n","y">>)

(***************************************************************************)
(* generateExtensionCode                                                   *)
(***************************************************************************)
\* `${method.isAsync}`
BoolText(b) == IF b THEN <<"t","r","u","e">> ELSE <<"f","a","l","s","e">>

\* lines 181-186: the template of one element
MethodDefinition(method) ==
    <<"\t","{","\n","\t","\t","n","a","m","e",":"," ","'">> \o method.name
    \o <<"'",",","\n","\t","\t","s","i","g","n","a","t","u","r","e",":"," ","'">> \o generateMethodSignature(method)
    \o <<"'",",","\n","\t","\t","d","e","s","c","r","i","p","t","i","o","n",":"," ","'">> \o method.description
    \o <<"'",",","\n","\t","\t","i","s","A","s","y","n","c",":"," ">> \o BoolText(method.isAsync)
    \o <<"\n","\t","}">>

RECURSIVE MethodDefinitions(_)
MethodDefinitions(methods) ==
    IF methods = <<>> THEN <<>>
    ELSE <<MethodDefinition(Head(methods))>> \o MethodDefinitions(Tail(methods))

\* `// Sypnex API method definitions`
AnchorComment == <<"/","/"," ","S","y","p","n","e","x"," ","A","P","I"," ","m","e","t","h","o","d"," ","d","e","f","i","n","i","t","i","o","n","s">>

\* lines 189-192: the template of the block
generateExtensionCode(methods) ==
    AnchorComment \o <<" ","(","a","u","t","o","-","g","e","n","e","r","a","t","e","d",")","\n","c","o","n","s","t"," ","s","y","p","n","e","x","A","p","i","M","e","t","h","o","d","s"," ","="," ","[","\n">>
    \o join(MethodDefinitions(methods), <<",", NL>>)
    \o <<NL, "]", ";">>

(***************************************************************************)
(* updateExtensionFile                                                     *)
(***************************************************************************)
\* ^ under the m flag: the start of the text or just after a line terminator
IsLineStart(s, p) == p = 1 \/ (p <= Len(s) + 1 /\ s[p - 1] \in {"\n", "\r"})

\* the first `^];` at or after position p, 0 when there is none
ClosingFrom(s, p) ==
    First({q \in p..Len(s) : IsLineStart(s, q) /\ StartsAt(s, q, <<"]", ";">>)})

\* the pattern with a greedy body, which ends at the last `^];`
AnchorMatchGreedy(s, from) ==
    LET p == IndexFrom(s, from, AnchorComment)
        closings == {q \in (p + Len(AnchorComment))..Len(s) :
                        IsLineStart(s, q) /\ StartsAt(s, q, <<"]", ";">>)}
    IN  IF p = 0 \/ closings = {} THEN NoMatch
        ELSE [found |-> TRUE, index |-> p,
              end |-> 2 + CHOOSE q \in closings : \A r \in closings : r <= q]

\* /\/\/ Sypnex API method definitions[\s\S]*?^];/m: the leftmost match, its
\* lazy body ending at the first `^];`
RECURSIVE AnchorMatch(_, _)
AnchorMatch(s, from) ==
    LET p == IndexFrom(s, from, AnchorComment)
    IN  IF p = 0 THEN NoMatch
        ELSE LET c == ClosingFrom(s, p + Len(AnchorComment))
             IN  IF c # 0 THEN [found |-> TRUE, index |-> p, end |-> c + 2]
                 ELSE AnchorMatch(s, p + 1)

\* The replacement text of String.prototype.replace with a string argument:
\* `$$` is `$`, `$&` the matched text, `$` and a grave accent the text before
\* the match, `$` and a single quote the text after it.  The pattern has no capture group, so `$1`..`$99`
\* and `$<` stay as written.
\* The text is read from the left, so in a run of `$` the first two make a
\* `$$`, then the next two, and so on: a `$` starts a pattern when an even
\* number of `$` stands directly before it and a pattern character follows.
RECURSIVE DollarsBefore(_, _)
DollarsBefore(s, p) ==
    IF p > 1 /\ s[p - 1] = "$" THEN 1 + DollarsBefore(s, p - 1) ELSE 0

StartsPattern(s, p) ==
    /\ p >= 1
    /\ p < Len(s)
    /\ s[p] = "$"
    /\ s[p + 1] \in {"$", "&", Backtick, "'"}
    /\ DollarsBefore(s, p) % 2 = 0

GetSubstitution(replacement, matched, before, after) ==
    Flatten([i \in 1..Len(replacement) |->
                IF StartsPattern(replacement, i)
                THEN CASE replacement[i + 1] = "$" -> <<"$">>
                       [] replacement[i + 1] = "&" -> matched
                       [] replacement[i + 1] = Backtick -> before
                       [] replacement[i + 1] = "'" -> after
                ELSE IF StartsPattern(replacement, i - 1) THEN <<>>
                ELSE <<replacement[i]>>])

\* a patch that appends the block to a text without the anchor
ReplaceAnchoredAppends(extensionContent, newMethodsCode) ==
    LET m == AnchorMatch(extensionContent, 1)
    IN  IF ~m.found THEN extensionContent \o <<NL>> \o newMethodsCode
        ELSE LET before == SubSeq(extensionContent, 1, m.index - 1)
                 matched == SubSeq(extensionContent, m.index, m.end - 1)
                 after == From(extensionContent, m.end)
             IN  before
                 \o GetSubstitution(newMethodsCode, matched, before, after)
                 \o after

\* lines 199-202: extensionContent.replace(pattern, newMethodsCode)
ReplaceAnchored(extensionContent, newMethodsCode) ==
    LET m == AnchorMatch(extensionContent, 1)
    IN  IF ~m.found THEN extensionContent
        ELSE LET before == SubSeq(extensionContent, 1, m.index - 1)
                 matched == SubSeq(extensionContent, m.index, m.end - 1)
                 after == From(extensionContent, m.end)
             IN  before
                 \o GetSubstitution(newMethodsCode, matched, before, after)
                 \o after

(***************************************************************************)
(* The files the script works on                                           *)
(***************************************************************************)
MaxLines == 2
MaxRuns == 2

\* a documentation comment with a description line: '/** D */'
LineDoc ==
    <<"/","*","*"," ","D"," ","*","/">>

\* a documentation comment that holds only a tag: '/** @p */'
LineTagDoc ==
    <<"/","*","*"," ","@","p"," ","*","/">>

\* a definition: 'f() {'
LineBare ==
    <<"f","(",")"," ","{">>

\* an async definition of the same name: 'async f(a) {'
LineAsync ==
    <<"a","s","y","n","c"," ","f","(","a",")"," ","{">>

\* a private definition: '_p() {'
LinePrivate ==
    <<"_","p","(",")"," ","{">>

\* the constructor: 'constructor() {'
LineConstructor ==
    <<"c","o","n","s","t","r","u","c","t","o","r","(",")"," ","{">>

\* a conditional: 'if (x) {'
LineIf ==
    <<"i","f"," ","(","x",")"," ","{">>

\* a documented definition on one line, with a default value: '/** Get it */ async getSetting(key, defaultValue = null) {'
LineGetSetting ==
    <<"/","*","*"," ","G","e","t"," ","i","t"," ","*","/"," ","a","s","y","n","c"," ","g","e","t","S","e","t","t","i","n","g","(","k","e","y",","," ","d","e","f","a","u","l","t","V","a","l","u","e"," ","="," ","n","u","l","l",")"," ","{">>

\* a definition whose parameter list holds `$&`: 'g($&) {'
LineDollar ==
    <<"g","(","$","&",")"," ","{">>

\* a destructured parameter with a nested default, and a defaulted one: '/** N */ h({a = 1}, o = {}) {'
LineNested ==
    <<"/","*","*"," ","N"," ","*","/"," ","h","(","{","a"," ","="," ","1","}",","," ","o"," ","="," ","{","}",")"," ","{">>

\* a definition named as a property every object inherits: 'toString() {'
LineToString ==
    <<"t","o","S","t","r","i","n","g","(",")"," ","{">>

\* a documented definition whose description ends with a backslash:
\* '/** C:\ */ k() {'
LineBackslash ==
    <<"/","*","*"," ","C",":","\\"," ","*","/"," ","k","(",")"," ","{">>

\* a documented definition with a comma inside a default value:
\* '/** O */ m(o = [1, 2]) {'
LineNestedComma ==
    <<"/","*","*"," ","O"," ","*","/"," ","m","(","o"," ","="," ","[","1",","," ","2","]",")"," ","{">>

Lines ==
    {LineDoc, LineTagDoc, LineBare, LineAsync, LinePrivate,
     LineConstructor, LineIf, LineGetSetting, LineDollar}

\* the lines taken as source texts of one line
SingleLineSources == {LineNested, LineToString, LineBackslash, LineNestedComma}

\* the sequences over S of length n
RECURSIVE SeqsOfLen(_, _)
SeqsOfLen(S, n) ==
    IF n = 0 THEN {<<>>}
    ELSE {Append(q, x) : q \in SeqsOfLen(S, n - 1), x \in S}

\* a documented definition whose description line holds an `@`:
\* '/** mail a@b */ p() {'
SourceAtSign ==
    <<"/","*","*"," ","m","a","i","l"," ","a","@","b"," ","*","/"," ","p","(",")"," ","{">>

\* a documented definition whose comment has a tag line before its prose:
\* '/**', ' * @x', ' * Use y', ' */', 'q() {'
SourceTagFirst ==
    <<"/","*","*","\n"," ","*"," ","@","x","\n"," ","*"," ","U","s","e"," ","y","\n"," ","*","/","\n","q","(",")"," ","{">>

\* source texts with a comment of more than one shape
CommentSources == {SourceAtSign, SourceTagFirst}

\* a bare definition with a default value: 's(a = 1) {'
SourceDefault ==
    <<"s","(","a"," ","="," ","1",")"," ","{">>

\* a bare definition whose name begins like a keyword: 'formatBytes(n) {'
SourceFormatBytes ==
    <<"f","o","r","m","a","t","B","y","t","e","s","(","n",")"," ","{">>

\* a definition on a denied line after a line that is not denied:
\* 'f() {', 's(a = 1) {'
SourceDeniedSecond ==
    <<"f","(",")"," ","{","\n","s","(","a"," ","="," ","1",")"," ","{">>

\* a documented definition whose default value is a call:
\* '/** P */ r(a = g()) {'
SourceNestedCall ==
    <<"/","*","*"," ","P"," ","*","/"," ","r","(","a"," ","="," ","g","(",")",")"," ","{">>

\* a one-line comment and its definition in the window of the line before:
\* 'x() {', '/** D */ foo() {'
SourceSameWindow ==
    <<"x","(",")"," ","{","\n","/","*","*"," ","D"," ","*","/"," ","f","o","o","(",")"," ","{">>

\* a documented definition whose default value is a quoted comma:
\* "/** J */ j(sep = ', ') {"
SourceQuotedDefault ==
    <<"/","*","*"," ","J"," ","*","/"," ","j","(","s","e","p"," ","="," ","'",","," ","'",")"," ","{">>

\* source texts for the line scanner of the second pass
ScannerSources ==
    {SourceDefault, SourceFormatBytes, SourceDeniedSecond, SourceNestedCall,
     SourceSameWindow, SourceQuotedDefault}

\* the source texts: up to MaxLines lines separated by line feeds, and the
\* texts given whole
Sources ==
    {join(ls, <<NL>>) : ls \in UNION {SeqsOfLen(Lines, n) : n \in 0..MaxLines}}
    \cup SingleLineSources \cup CommentSources \cup ScannerSources

\* the block between other code
ConsumerAnchored ==
    <<"i","m","p","o","r","t"," ","v","\n","/","/"," ","S","y","p","n","e","x"," ","A","P","I"," ","m","e","t","h","o","d"," ","d","e","f","i","n","i","t","i","o","n","s","\n","c","o","n","s","t"," ","s","y","p","n","e","x","A","p","i","M","e","t","h","o","d","s"," ","="," ","[","\n","\t","{"," ","n","a","m","e",":"," ","'","o","l","d","'"," ","}","\n","]",";","\n","c","l","a","s","s"," ","P"," ","{","}","\n">>

\* the anchor comment deleted
ConsumerNoAnchor ==
    <<"i","m","p","o","r","t"," ","v","\n","c","o","n","s","t"," ","s","y","p","n","e","x","A","p","i","M","e","t","h","o","d","s"," ","="," ","[","\n","]",";","\n","c","l","a","s","s"," ","P"," ","{","}","\n">>

\* the anchor comment with no line that starts with `];`
ConsumerNoClosing ==
    <<"/","/"," ","S","y","p","n","e","x"," ","A","P","I"," ","m","e","t","h","o","d"," ","d","e","f","i","n","i","t","i","o","n","s","\n","c","o","n","s","t"," ","m"," ","="," ","["," ","]",";","\n">>

\* a second line that starts with `];` after the block
ConsumerTwoBlocks ==
    <<"/","/"," ","S","y","p","n","e","x"," ","A","P","I"," ","m","e","t","h","o","d"," ","d","e","f","i","n","i","t","i","o","n","s","\n","]",";","\n","l","e","t"," ","q"," ","="," ","[","\n","]",";","\n">>

Consumers == {ConsumerAnchored, ConsumerNoAnchor, ConsumerNoClosing, ConsumerTwoBlocks}

\* the source texts every consumer text is patched from
PatchSources == {<<>>, LineBare, LineDollar, LineGetSetting}

\* fs.existsSync(API_FILE_PATH) is false
Absent == <<"ENOENT">>

(***************************************************************************)
(* main: one invocation of the script after the other                      *)
(***************************************************************************)
VARIABLES
    apiFile,          \* the content of API_FILE_PATH, or Absent
    extFile,          \* the content of EXTENSION_FILE_PATH
    pc,               \* where each invocation stands in main
    apiContent,       \* main's local of that name
    methods,          \* the list extractMethodsFromApi builds
    newMethodsCode,   \* main's local of that name
    extensionContent, \* updateExtensionFile's local of that name
    exitCode,         \* the exit status of the process, -1 while it runs
    output,           \* what the invocation printed, one tag per message
    thrown,           \* the call whose exception main caught
    extAtStart,       \* extFile when the invocation started
    extAtExit,        \* extFile when the invocation exited
    lineText,         \* document.lineAt(position).text in the editor
    character,        \* position.character
    completionItems   \* what provideCompletionItems returned last

vars == <<apiFile, extFile, pc, apiContent, methods, newMethodsCode,
          extensionContent, exitCode, output, thrown, extAtStart, extAtExit,
          lineText, character, completionItems>>

\* the variables of the script, the variables of the editor
scriptVars == <<apiFile, extFile, pc, apiContent, methods, newMethodsCode,
                extensionContent, exitCode, output, thrown, extAtStart, extAtExit>>
editorVars == <<lineText, character, completionItems>>

\* no completion was asked for
NotAsked == [returned |-> "nothing yet", items |-> <<>>]

\* the script runs with no document open in the editor
EditorIdle ==
    /\ lineText = <<>>
    /\ character = 0
    /\ completionItems = NotAsked

Invocations == 1..MaxRuns

\* every source text against the block as it is shipped, and every consumer
\* text against a few source texts
Init ==
    /\ \/ /\ apiFile \in Sources \cup {Absent}
          /\ extFile = ConsumerAnchored
       \/ /\ apiFile \in PatchSources \cup {Absent}
          /\ extFile \in Consumers
    /\ EditorIdle
    /\ pc = [i \in Invocations |-> "idle"]
    /\ apiContent = [i \in Invocations |-> <<>>]
    /\ methods = [i \in Invocations |-> <<>>]
    /\ newMethodsCode = [i \in Invocations |-> <<>>]
    /\ extensionContent = [i \in Invocations |-> <<>>]
    /\ exitCode = [i \in Invocations |-> -1]
    /\ output = [i \in Invocations |-> <<>>]
    /\ thrown = [i \in Invocations |-> "none"]
    /\ extAtStart = [i \in Invocations |-> <<>>]
    /\ extAtExit = [i \in Invocations |-> <<>>]

\* process.exit(code), or the return of main with code 0
Exit(i, code, messages, call) ==
    /\ pc' = [pc EXCEPT ![i] = "exited"]
    /\ exitCode' = [exitCode EXCEPT ![i] = code]
    /\ output' = [output EXCEPT ![i] = @ \o messages]
    /\ thrown' = [thrown EXCEPT ![i] = call]
    /\ extAtExit' = [extAtExit EXCEPT ![i] = extFile']

\* a catch block that reports the error and lets the process end with 0
CatchExitsZero(i, call) == Exit(i, 0, <<"error">>, call)

\* lines 237-240: the catch block
Catch(i, call) == Exit(i, 1, <<"error">>, call)

\* main without the existence check of lines 211-215
MainSkipsCheck(i) ==
    /\ pc[i] = "idle"
    /\ UNCHANGED editorVars
    /\ IF i = 1 THEN TRUE ELSE pc[i - 1] = "exited" /\ exitCode[i - 1] = 0
    /\ extAtStart' = [extAtStart EXCEPT ![i] = extFile]
    /\ UNCHANGED <<apiFile, extFile, apiContent, methods, newMethodsCode,
                   extensionContent>>
    /\ pc' = [pc EXCEPT ![i] = "readApi"]
    /\ output' = [output EXCEPT ![i] = @ \o <<"reading">>]
    /\ UNCHANGED <<exitCode, thrown, extAtExit>>

\* lines 208-215: the script is started; the source must exist.  The script
\* keeps nothing between invocations, so an invocation started after a failed
\* one behaves as a first invocation on the files the failed one left: the
\* runs followed here are those in which the next invocation is started
\* after one that succeeded.
Main(i) ==
    /\ pc[i] = "idle"
    /\ UNCHANGED editorVars
    /\ IF i = 1 THEN TRUE ELSE pc[i - 1] = "exited" /\ exitCode[i - 1] = 0
    /\ extAtStart' = [extAtStart EXCEPT ![i] = extFile]
    /\ UNCHANGED <<apiFile, extFile, apiContent, methods, newMethodsCode,
                   extensionContent>>
    /\ IF apiFile = Absent
       THEN Exit(i, 1, <<"reading", "not found", "path hint">>, "none")
       ELSE /\ pc' = [pc EXCEPT ![i] = "readApi"]
            /\ output' = [output EXCEPT ![i] = @ \o <<"reading">>]
            /\ UNCHANGED <<exitCode, thrown, extAtExit>>

\* line 217: fs.readFileSync(API_FILE_PATH) returns
ReadApi(i) ==
    /\ pc[i] = "readApi"
    /\ UNCHANGED editorVars
    /\ apiContent' = [apiContent EXCEPT ![i] = apiFile]
    /\ pc' = [pc EXCEPT ![i] = "jsdocPass"]
    /\ output' = [output EXCEPT ![i] = @ \o <<"extracting">>]
    /\ UNCHANGED <<apiFile, extFile, methods, newMethodsCode, extensionContent,
                   exitCode, thrown, extAtStart, extAtExit>>

\* line 217: fs.readFileSync(API_FILE_PATH) throws
ReadApiThrows(i) ==
    /\ pc[i] = "readApi"
    /\ UNCHANGED editorVars
    /\ UNCHANGED <<apiFile, extFile, apiContent, methods, newMethodsCode,
                   extensionContent, extAtStart>>
    /\ Catch(i, "readApi")

\* lines 14-59 of extractMethodsFromApi: the documented definitions
ExtractJsdoc(i) ==
    /\ pc[i] = "jsdocPass"
    /\ UNCHANGED editorVars
    /\ methods' = [methods EXCEPT ![i] = JsdocPass(NormalizeLineEndings(apiContent[i]))]
    /\ pc' = [pc EXCEPT ![i] = "barePass"]
    /\ UNCHANGED <<apiFile, extFile, apiContent, newMethodsCode, extensionContent,
                   exitCode, output, thrown, extAtStart, extAtExit>>

\* lines 61-111 of extractMethodsFromApi, lines 222-226 of main
ExtractBare(i) ==
    /\ pc[i] = "barePass"
    /\ UNCHANGED editorVars
    /\ methods' = [methods EXCEPT ![i] = BarePass(@, NormalizeLineEndings(apiContent[i]))]
    /\ pc' = [pc EXCEPT ![i] = "generate"]
    /\ output' = [output EXCEPT ![i] = @ \o <<"found">>]
    /\ UNCHANGED <<apiFile, extFile, apiContent, newMethodsCode, extensionContent,
                   exitCode, thrown, extAtStart, extAtExit>>

\* a main that takes an empty list for an error
GenerateRejectsEmpty(i) ==
    /\ pc[i] = "generate"
    /\ UNCHANGED editorVars
    /\ UNCHANGED <<apiFile, extFile, apiContent, methods, extensionContent, extAtStart>>
    /\ IF methods[i] = <<>>
       THEN /\ UNCHANGED newMethodsCode
            /\ Exit(i, 1, <<"error">>, "none")
       ELSE /\ newMethodsCode' = [newMethodsCode EXCEPT ![i] = generateExtensionCode(methods[i])]
            /\ pc' = [pc EXCEPT ![i] = "readExtension"]
            /\ output' = [output EXCEPT ![i] = @ \o <<"generating", "updating">>]
            /\ UNCHANGED <<exitCode, thrown, extAtExit>>

\* lines 228-231
Generate(i) ==
    /\ pc[i] = "generate"
    /\ UNCHANGED editorVars
    /\ newMethodsCode' = [newMethodsCode EXCEPT ![i] = generateExtensionCode(methods[i])]
    /\ pc' = [pc EXCEPT ![i] = "readExtension"]
    /\ output' = [output EXCEPT ![i] = @ \o <<"generating", "updating">>]
    /\ UNCHANGED <<apiFile, extFile, apiContent, methods, extensionContent,
                   exitCode, thrown, extAtStart, extAtExit>>

\* line 196: fs.readFileSync(EXTENSION_FILE_PATH) returns
ReadExtension(i) ==
    /\ pc[i] = "readExtension"
    /\ UNCHANGED editorVars
    /\ extensionContent' = [extensionContent EXCEPT ![i] = extFile]
    /\ pc' = [pc EXCEPT ![i] = "writeExtension"]
    /\ UNCHANGED <<apiFile, extFile, apiContent, methods, newMethodsCode,
                   exitCode, output, thrown, extAtStart, extAtExit>>

\* line 196: fs.readFileSync(EXTENSION_FILE_PATH) throws
ReadExtensionThrows(i) ==
    /\ pc[i] = "readExtension"
    /\ UNCHANGED editorVars
    /\ UNCHANGED <<apiFile, extFile, apiContent, methods, newMethodsCode,
                   extensionContent, extAtStart>>
    /\ Catch(i, "readExtension")

\* lines 199-204 and 234-235: the replace, fs.writeFileSync returns, main returns
updateExtensionFile(i) ==
    /\ pc[i] = "writeExtension"
    /\ UNCHANGED editorVars
    /\ extFile' = ReplaceAnchored(extensionContent[i], newMethodsCode[i])
    /\ Exit(i, 0, <<"success", "rebuild hint">>, "none")
    /\ UNCHANGED <<apiFile, apiContent, methods, newMethodsCode,
                   extensionContent, extAtStart>>

\* an updateExtensionFile that reads the consumer file again when the write
\* failed
WriteExtensionRetries(i) ==
    /\ pc[i] = "writeExtension"
    /\ UNCHANGED editorVars
    /\ extFile' \in {extFile, <<>>}
    /\ pc' = [pc EXCEPT ![i] = "readExtension"]
    /\ UNCHANGED <<apiFile, apiContent, methods, newMethodsCode, extensionContent,
                   exitCode, output, thrown, extAtStart, extAtExit>>

\* line 204: fs.writeFileSync throws, before it opened the file or after it
\* truncated it
WriteExtensionThrows(i) ==
    /\ pc[i] = "writeExtension"
    /\ UNCHANGED editorVars
    /\ extFile' \in {extFile, <<>>}
    /\ UNCHANGED <<apiFile, apiContent, methods, newMethodsCode,
                   extensionContent, extAtStart>>
    /\ Catch(i, "writeExtension")

Next ==
    \E i \in Invocations :
        \/ Main(i)
        \/ ReadApi(i)
        \/ ReadApiThrows(i)
        \/ ExtractJsdoc(i)
        \/ ExtractBare(i)
        \/ Generate(i)
        \/ ReadExtension(i)
        \/ ReadExtensionThrows(i)
        \/ updateExtensionFile(i)
        \/ WriteExtensionThrows(i)

Spec == Init /\ [][Next]_vars

(***************************************************************************)
(* Invocations of the script that run at the same time                     *)
(***************************************************************************)
\* the source texts of the concurrent runs
ConcurrentSources == {LineBare, LineGetSetting, LineDollar}

InitConcurrent ==
    /\ apiFile \in ConcurrentSources
    /\ extFile = ConsumerAnchored
    /\ EditorIdle
    /\ pc = [i \in Invocations |-> "idle"]
    /\ apiContent = [i \in Invocations |-> <<>>]
    /\ methods = [i \in Invocations |-> <<>>]
    /\ newMethodsCode = [i \in Invocations |-> <<>>]
    /\ extensionContent = [i \in Invocations |-> <<>>]
    /\ exitCode = [i \in Invocations |-> -1]
    /\ output = [i \in Invocations |-> <<>>]
    /\ thrown = [i \in Invocations |-> "none"]
    /\ extAtStart = [i \in Invocations |-> <<>>]
    /\ extAtExit = [i \in Invocations |-> <<>>]

\* lines 208-215: a process is started, whatever the other processes do
MainConcurrent(i) ==
    /\ pc[i] = "idle"
    /\ UNCHANGED editorVars
    /\ extAtStart' = [extAtStart EXCEPT ![i] = extFile]
    /\ UNCHANGED <<apiFile, extFile, apiContent, methods, newMethodsCode,
                   extensionContent>>
    /\ IF apiFile = Absent
       THEN Exit(i, 1, <<"reading", "not found", "path hint">>, "none")
       ELSE /\ pc' = [pc EXCEPT ![i] = "readApi"]
            /\ output' = [output EXCEPT ![i] = @ \o <<"reading">>]
            /\ UNCHANGED <<exitCode, thrown, extAtExit>>

\* line 204: fs.writeFileSync opens the file for writing, which truncates it
OpenExtension(i) ==
    /\ pc[i] = "writeExtension"
    /\ UNCHANGED editorVars
    /\ extFile' = <<>>
    /\ pc' = [pc EXCEPT ![i] = "writing"]
    /\ UNCHANGED <<apiFile, apiContent, methods, newMethodsCode, extensionContent,
                   exitCode, output, thrown, extAtStart, extAtExit>>

\* data written from offset 0 over what the file holds
Overwrite(file, data) == data \o From(file, Len(data) + 1)

\* lines 204 and 234-235: fs.writeFileSync writes updatedContent through its
\* own descriptor and closes the file; main returns
WriteExtension(i) ==
    /\ pc[i] = "writing"
    /\ UNCHANGED editorVars
    /\ extFile' = Overwrite(extFile, ReplaceAnchored(extensionContent[i], newMethodsCode[i]))
    /\ Exit(i, 0, <<"success", "rebuild hint">>, "none")
    /\ UNCHANGED <<apiFile, apiContent, methods, newMethodsCode,
                   extensionContent, extAtStart>>

NextConcurrent ==
    \E i \in Invocations :
        \/ MainConcurrent(i)
        \/ ReadApi(i)
        \/ ExtractJsdoc(i)
        \/ ExtractBare(i)
        \/ Generate(i)
        \/ ReadExtension(i)
        \/ OpenExtension(i)
        \/ WriteExtension(i)

SpecConcurrent == InitConcurrent /\ [][NextConcurrent]_vars

(***************************************************************************)
(* The completion provider of the extension                                *)
(***************************************************************************)
\* lines 6-397 of extension.ts: the table as the compiled extension holds it
sypnexApiMethods == <<
    [name |-> "connectSocket",
     signature |-> "connectSocket(url?: any, options?: any): Promise<any>",
     description |-> "Connect to Socket.IO server for this app instance",
     isAsync |-> TRUE],
    [name |-> "disconnectSocket",
     signature |-> "disconnectSocket(): any",
     description |-> "Disconnect from Socket.IO server",
     isAsync |-> FALSE],
    [name |-> "isSocketConnected",
     signature |-> "isSocketConnected(): any",
     description |-> "Check if Socket.IO is connected",
     isAsync |-> FALSE],
    [name |-> "sendMessage",
     signature |-> "sendMessage(event: any, data: any, room?: any): any",
     description |-> "Send a message via Socket.IO",
     isAsync |-> FALSE],
    [name |-> "joinRoom",
     signature |-> "joinRoom(roomName: any): any",
     description |-> "Join a Socket.IO room",
     isAsync |-> FALSE],
    [name |-> "leaveRoom",
     signature |-> "leaveRoom(roomName: any): any",
     description |-> "Leave a Socket.IO room",
     isAsync |-> FALSE],
    [name |-> "ping",
     signature |-> "ping(): Promise<any>",
     description |-> "Send a ping to test connection",
     isAsync |-> TRUE],
    [name |-> "on",
     signature |-> "on(eventName: any, callback: any): any",
     description |-> "Listen for Socket.IO events",
     isAsync |-> FALSE],
    [name |-> "off",
     signature |-> "off(eventName: any, callback: any): any",
     description |-> "Remove Socket.IO event listener",
     isAsync |-> FALSE],
    [name |-> "getSocket",
     signature |-> "getSocket(): any",
     description |-> "Get the Socket.IO instance",
     isAsync |-> FALSE],
    [name |-> "getSocketState",
     signature |-> "getSocketState(): any",
     description |-> "Get Socket.IO connection state",
     isAsync |-> FALSE],
    [name |-> "startHealthChecks",
     signature |-> "startHealthChecks(): any",
     description |-> "Start periodic health checks",
     isAsync |-> FALSE],
    [name |-> "stopHealthChecks",
     signature |-> "stopHealthChecks(): any",
     description |-> "Stop periodic health checks",
     isAsync |-> FALSE],
    [name |-> "performHealthCheck",
     signature |-> "performHealthCheck(): Promise<any>",
     description |-> "Perform a health check ping",
     isAsync |-> TRUE],
    [name |-> "setHealthChecks",
     signature |-> "setHealthChecks(enabled: any): any",
     description |-> "Enable or disable health checks",
     isAsync |-> FALSE],
    [name |-> "setHealthCheckInterval",
     signature |-> "setHealthCheckInterval(intervalMs: any): any",
     description |-> "Set health check interval",
     isAsync |-> FALSE],
    [name |-> "setAutoReconnect",
     signature |-> "setAutoReconnect(enabled: any): any",
     description |-> "Enable or disable auto-reconnect",
     isAsync |-> FALSE],
    [name |-> "setReconnectConfig",
     signature |-> "setReconnectConfig(config: any): any",
     description |-> "Set auto-reconnect configuration",
     isAsync |-> FALSE],
    [name |-> "reconnect",
     signature |-> "reconnect(): any",
     description |-> "Manually trigger reconnection",
     isAsync |-> FALSE],
    [name |-> "getVirtualFileStats",
     signature |-> "getVirtualFileStats(): Promise<any>",
     description |-> "Get virtual file system statistics",
     isAsync |-> TRUE],
    [name |-> "listVirtualFiles",
     signature |-> "listVirtualFiles(path?: any): Promise<any>",
     description |-> "List files and directories in a path",
     isAsync |-> TRUE],
    [name |-> "createVirtualFolder",
     signature |-> "createVirtualFolder(name: any, parentPath?: any): Promise<any>",
     description |-> "Create a new folder",
     isAsync |-> TRUE],
    [name |-> "createVirtualFile",
     signature |-> "createVirtualFile(name: any, content?: any, parentPath?: any): Promise<any>",
     description |-> "Create a new file",
     isAsync |-> TRUE],
    [name |-> "uploadVirtualFile",
     signature |-> "uploadVirtualFile(file: any, parentPath?: any): Promise<any>",
     description |-> "Upload a file from the host system",
     isAsync |-> TRUE],
    [name |-> "readVirtualFile",
     signature |-> "readVirtualFile(filePath: any): Promise<any>",
     description |-> "Read a file's content",
     isAsync |-> TRUE],
    [name |-> "readVirtualFileText",
     signature |-> "readVirtualFileText(filePath: any): Promise<any>",
     description |-> "Get a file's content as text",
     isAsync |-> TRUE],
    [name |-> "readVirtualFileJSON",
     signature |-> "readVirtualFileJSON(filePath: any): Promise<any>",
     description |-> "Get a file's content as JSON",
     isAsync |-> TRUE],
    [name |-> "getVirtualFileUrl",
     signature |-> "getVirtualFileUrl(filePath: any): any",
     description |-> "Serve a file directly (for binary files, images, etc.)",
     isAsync |-> FALSE],
    [name |-> "deleteVirtualItem",
     signature |-> "deleteVirtualItem(itemPath: any): Promise<any>",
     description |-> "Delete a file or directory",
     isAsync |-> TRUE],
    [name |-> "getVirtualItemInfo",
     signature |-> "getVirtualItemInfo(itemPath: any): Promise<any>",
     description |-> "Get information about a file or directory",
     isAsync |-> TRUE],
    [name |-> "virtualItemExists",
     signature |-> "virtualItemExists(itemPath: any): Promise<any>",
     description |-> "Check if a file or directory exists",
     isAsync |-> TRUE],
    [name |-> "writeVirtualFile",
     signature |-> "writeVirtualFile(filePath: any, content: any): Promise<any>",
     description |-> "Write content to a file (creates or overwrites)",
     isAsync |-> TRUE],
    [name |-> "writeVirtualFileJSON",
     signature |-> "writeVirtualFileJSON(filePath: any, data: any): Promise<any>",
     description |-> "Write JSON content to a file",
     isAsync |-> TRUE],
    [name |-> "createVirtualDirectoryStructure",
     signature |-> "createVirtualDirectoryStructure(dirPath: any): Promise<any>",
     description |-> "Create a directory structure (creates parent directories if needed)",
     isAsync |-> TRUE],
    [name |-> "loadLibrary",
     signature |-> "loadLibrary(url: any, options?: any): Promise<any>",
     description |-> "Load a library from CDN",
     isAsync |-> TRUE],
    [name |-> "showFileExplorer",
     signature |-> "showFileExplorer(options?: any): Promise<any>",
     description |-> "Show a file explorer modal for selecting files or directories",
     isAsync |-> TRUE],
    [name |-> "executeTerminalCommand",
     signature |-> "executeTerminalCommand(command: any): Promise<any>",
     description |-> "Execute a terminal command",
     isAsync |-> TRUE],
    [name |-> "writeLog",
     signature |-> "writeLog(logData: any): Promise<any>",
     description |-> "Write a log entry",
     isAsync |-> TRUE],
    [name |-> "logDebug",
     signature |-> "logDebug(message: any, details?: any): Promise<any>",
     description |-> "Convenience method to write debug log",
     isAsync |-> TRUE],
    [name |-> "logInfo",
     signature |-> "logInfo(message: any, details?: any): Promise<any>",
     description |-> "Convenience method to write info log",
     isAsync |-> TRUE],
    [name |-> "logWarn",
     signature |-> "logWarn(message: any, details?: any): Promise<any>",
     description |-> "Convenience method to write warning log",
     isAsync |-> TRUE],
    [name |-> "logError",
     signature |-> "logError(message: any, details?: any): Promise<any>",
     description |-> "Convenience method to write error log",
     isAsync |-> TRUE],
    [name |-> "logCritical",
     signature |-> "logCritical(message: any, details?: any): Promise<any>",
     description |-> "Convenience method to write critical log",
     isAsync |-> TRUE],
    [name |-> "readLogs",
     signature |-> "readLogs(filters?: any): Promise<any>",
     description |-> "Read logs with filtering options",
     isAsync |-> TRUE],
    [name |-> "getLogDates",
     signature |-> "getLogDates(): Promise<any>",
     description |-> "Get available log dates for each component",
     isAsync |-> TRUE],
    [name |-> "clearLogs",
     signature |-> "clearLogs(filters?: any): Promise<any>",
     description |-> "Clear logs with optional filtering",
     isAsync |-> TRUE],
    [name |-> "getLogStats",
     signature |-> "getLogStats(): Promise<any>",
     description |-> "Get logging system statistics",
     isAsync |-> TRUE],
    [name |-> "getMyLogs",
     signature |-> "getMyLogs(filters?: any): Promise<any>",
     description |-> "Get logs for the current app (convenience method)",
     isAsync |-> TRUE],
    [name |-> "init",
     signature |-> "init(): Promise<any>",
     description |-> "Initialize the SypnexAPI instance",
     isAsync |-> TRUE],
    [name |-> "getAppMetadata",
     signature |-> "getAppMetadata(): Promise<any>",
     description |-> "getAppMetadata method from Sypnex API",
     isAsync |-> TRUE],
    [name |-> "isInitialized",
     signature |-> "isInitialized(): any",
     description |-> "Check if the API is initialized",
     isAsync |-> FALSE],
    [name |-> "getAppId",
     signature |-> "getAppId(): any",
     description |-> "Get the current application ID",
     isAsync |-> FALSE],
    [name |-> "getWindowState",
     signature |-> "getWindowState(): Promise<any>",
     description |-> "getWindowState method from Sypnex API",
     isAsync |-> TRUE],
    [name |-> "saveWindowState",
     signature |-> "saveWindowState(state: any): Promise<any>",
     description |-> "saveWindowState method from Sypnex API",
     isAsync |-> TRUE],
    [name |-> "getSetting",
     signature |-> "getSetting(key: any, defaultValue?: any): Promise<any>",
     description |-> "Get an application setting value",
     isAsync |-> TRUE],
    [name |-> "setSetting",
     signature |-> "setSetting(key: any, value: any): Promise<any>",
     description |-> "Set an application setting value",
     isAsync |-> TRUE],
    [name |-> "getAllSettings",
     signature |-> "getAllSettings(): Promise<any>",
     description |-> "Get all application settings",
     isAsync |-> TRUE],
    [name |-> "deleteSetting",
     signature |-> "deleteSetting(key: any): Promise<any>",
     description |-> "Delete an application setting",
     isAsync |-> TRUE],
    [name |-> "getPreference",
     signature |-> "getPreference(category: any, key: any, defaultValue?: any): Promise<any>",
     description |-> "getPreference method from Sypnex API",
     isAsync |-> TRUE],
    [name |-> "setPreference",
     signature |-> "setPreference(category: any, key: any, value: any): Promise<any>",
     description |-> "setPreference method from Sypnex API",
     isAsync |-> TRUE],
    [name |-> "detectAppScale",
     signature |-> "detectAppScale(): any",
     description |-> "detectAppScale method from Sypnex API",
     isAsync |-> FALSE],
    [name |-> "screenToAppCoords",
     signature |-> "screenToAppCoords(screenX: any, screenY: any): any",
     description |-> "screenToAppCoords method from Sypnex API",
     isAsync |-> FALSE],
    [name |-> "getScaledBoundingClientRect",
     signature |-> "getScaledBoundingClientRect(element: any): any",
     description |-> "getScaledBoundingClientRect method from Sypnex API",
     isAsync |-> FALSE],
    [name |-> "loadDirectory",
     signature |-> "loadDirectory(path: any): any",
     description |-> "loadDirectory method from Sypnex API",
     isAsync |-> FALSE],
    [name |-> "updateBreadcrumb",
     signature |-> "updateBreadcrumb(path: any): any",
     description |-> "updateBreadcrumb method from Sypnex API",
     isAsync |-> FALSE]
>>

\* the lines the cursor stands in
\* 'sypnexAPI.'
DocAfterDot == <<"s","y","p","n","e","x","A","P","I",".">>

\* '  x = sypnexAPI.init'
DocCall == <<" "," ","x"," ","="," ","s","y","p","n","e","x","A","P","I",".","i","n","i","t">>

\* 'api.'
DocOtherObject == <<"a","p","i",".">>

\* 'SypnexAPI.'
DocCapital == <<"S","y","p","n","e","x","A","P","I",".">>

\* 'mysypnexAPI.'
DocLongerName == <<"m","y","s","y","p","n","e","x","A","P","I",".">>

\* ''
DocEmpty == <<>>

DocLines == {DocAfterDot, DocCall, DocOtherObject, DocCapital, DocLongerName, DocEmpty}

\* the extension is active, with the cursor at the start of a line; the
\* script does not run
InitProvider ==
    /\ lineText \in DocLines
    /\ character = 0
    /\ completionItems = NotAsked
    /\ apiFile = Absent
    /\ extFile = ConsumerAnchored
    /\ pc = [i \in Invocations |-> "idle"]
    /\ apiContent = [i \in Invocations |-> <<>>]
    /\ methods = [i \in Invocations |-> <<>>]
    /\ newMethodsCode = [i \in Invocations |-> <<>>]
    /\ extensionContent = [i \in Invocations |-> <<>>]
    /\ exitCode = [i \in Invocations |-> -1]
    /\ output = [i \in Invocations |-> <<>>]
    /\ thrown = [i \in Invocations |-> "none"]
    /\ extAtStart = [i \in Invocations |-> <<>>]
    /\ extAtExit = [i \in Invocations |-> <<>>]

\* String.prototype.endsWith
endsWith(s, suffix) ==
    /\ Len(suffix) <= Len(s)
    /\ SubSeq(s, Len(s) - Len(suffix) + 1, Len(s)) = suffix

\* `return undefined`, `return completionItems`
Undefined == [returned |-> "undefined", items |-> <<>>]
Returned(items) == [returned |-> "items", items |-> items]

\* lines 415-434: the callback of sypnexApiMethods.map
CompletionItem(method) ==
    [label |-> method.name,
     kind |-> "Method",
     detail |-> method.signature,
     documentation |->
        IF method.isAsync
        THEN method.description \o "\n\n**Returns:** Promise"
        ELSE method.description,
     insertText |-> method.name \o "($0)"]

\* a provider that looks for `sypnexAPI.` anywhere before the cursor
provideCompletionItemsAnywhere ==
    /\ LET linePrefix == SubSeq(lineText, 1, character)
       IN  completionItems' =
              IF ~includes(linePrefix, <<"s","y","p","n","e","x","A","P","I",".">>)
              THEN Undefined
              ELSE Returned([k \in 1..Len(sypnexApiMethods) |->
                                CompletionItem(sypnexApiMethods[k])])
    /\ UNCHANGED <<lineText, character>>
    /\ UNCHANGED scriptVars

\* lines 400-438
provideCompletionItems ==
    /\ LET linePrefix == SubSeq(lineText, 1, character)
       IN  completionItems' =
              IF ~endsWith(linePrefix, <<"s","y","p","n","e","x","A","P","I",".">>)
              THEN Undefined
              ELSE Returned([k \in 1..Len(sypnexApiMethods) |->
                                CompletionItem(sypnexApiMethods[k])])
    /\ UNCHANGED <<lineText, character>>
    /\ UNCHANGED scriptVars

\* the user moves the cursor within the line; the editor asks anew
MoveCursor ==
    /\ \E c \in 0..Len(lineText) :
          /\ c # character
          /\ character' = c
    /\ completionItems' = NotAsked
    /\ UNCHANGED lineText
    /\ UNCHANGED scriptVars

NextProvider ==
    \/ provideCompletionItems
    \/ MoveCursor

SpecProvider == InitProvider /\ [][NextProvider]_vars

(***************************************************************************)
(* What the claims speak of                                                *)
(***************************************************************************)
\* the text invocation i scans
FullContent(i) == NormalizeLineEndings(apiContent[i])

\* the names a pass matched, before the filter
NamesOf(matches) == {matches[k].name : k \in 1..Len(matches)}
JsdocNames(i) == NamesOf(JsdocMatches(FullContent(i), 1))
BareNames(i) == NamesOf(BareMatches(FullContent(i)))

\* the descriptors of the list that carry name n
Holding(list, n) == {k \in 1..Len(list) : list[k].name = n}

\* the first pass is over, the second pass is over
AfterJsdocPass(i) == pc[i] = "barePass"
AfterBarePass(i) == pc[i] \in {"generate", "readExtension", "writeExtension", "exited"}
                    /\ apiContent[i] # <<>>

\* a name the filter of lines 44-48 and 90-94 refuses
IsExcludedName(n) ==
    \/ startsWith(n, <<"_">>)
    \/ Str(n) = "constructor"
    \/ Str(n) \in {"if", "for", "while", "catch", "try", "switch", "function",
                   "const", "let", "var", "return", "not", "assign"}

(***************************************************************************)
(* C1: no two descriptors of the list extractMethodsFromApi builds share a *)
(* name, after the JSDoc-paired pass and after the bare pass alike.        *)
(***************************************************************************)
C1_UniqueNames ==
    \A i \in Invocations :
        \A j, k \in 1..Len(methods[i]) :
            methods[i][j].name = methods[i][k].name => j = k

\* both passes are over, the second appended to the list, and a name that
\* was matched more than once is held once
C1_Witness ==
    \E i \in Invocations :
        /\ pc[i] = "generate"
        /\ Len(methods[i]) > Len(JsdocPass(FullContent(i)))
        /\ LET all == JsdocMatches(FullContent(i), 1) \o BareMatches(FullContent(i))
           IN  \E n \in NamesOf(all) :
                  /\ Cardinality({k \in 1..Len(all) : all[k].name = n}) >= 2
                  /\ Cardinality(Holding(methods[i], n)) = 1

(***************************************************************************)
(* C2: no descriptor of the list has a name that starts with an            *)
(* underscore, is `constructor` or is one of the thirteen excluded         *)
(* keywords, whichever pass pushed it.                                     *)
(***************************************************************************)
C2_NoExcludedName ==
    \A i \in Invocations :
        \A k \in 1..Len(methods[i]) : ~IsExcludedName(methods[i][k].name)

\* both passes are over and each of them matched an excluded name
C2_Witness ==
    \E i \in Invocations :
        /\ pc[i] = "generate"
        /\ \E n \in JsdocNames(i) : IsExcludedName(n)
        /\ \E n \in BareNames(i) : IsExcludedName(n)

(***************************************************************************)
(* C3: a name the filter accepts that both passes matched is held by       *)
(* exactly one descriptor, whose description comes from the documentation  *)
(* comment and is not the fallback generateMethodDescription gives.        *)
(***************************************************************************)
\* the accepted names both passes matched
MatchedByBoth(i) == {n \in JsdocNames(i) \cap BareNames(i) : ~IsExcludedName(n)}

\* the comment of the first match of the first pass that carries name n
FirstJsdocOf(i, n) ==
    LET ms == JsdocMatches(FullContent(i), 1)
        k == First({j \in 1..Len(ms) : ms[j].name = n})
    IN  ms[k].jsdoc

\* the comment holds a description line: the capture is not blank
HasDescriptionLine(jsdoc) ==
    LET m == descMatch(jsdoc, 1)
    IN  m.found /\ trim(m.capture) # <<>>

HasAnchor(text) == AnchorMatch(text, 1).found

C4_SecondRunIdentical ==
    (/\ pc[1] = "exited" /\ exitCode[1] = 0
     /\ pc[2] = "exited" /\ exitCode[2] = 0
     /\ HasAnchor(extAtStart[1]))
        => extAtExit[2] = extAtExit[1]

(***************************************************************************)
(* C5: in generateMethodSignature a parameter token that holds a `=`       *)
(* outside every bracket, brace and parenthesis is emitted as              *)
(* `<name>?: any`, and a token that holds none is emitted as               *)
(* `<token>: any`, without the `?`.                                        *)
(***************************************************************************)
Openers == {"(", "[", "{"}
Closers == {")", "]", "}"}

\* how many brackets, braces and parentheses are open before position p
Depth(s, p) ==
    Cardinality({q \in 1..(p - 1) : s[q] \in Openers})
    - Cardinality({q \in 1..(p - 1) : s[q] \in Closers})

\* the positions of the character c that stand outside every nesting
TopLevel(s, c) == {p \in 1..Len(s) : s[p] = c /\ Depth(s, p) = 0}

\* the entry the claim gives one token
ExpectedEntry(token) ==
    LET trimmed == trim(token)
        eq == First(TopLevel(trimmed, "="))
    IN  IF eq # 0
        THEN trim(SubSeq(trimmed, 1, eq - 1)) \o <<"?",":"," ","a","n","y">>
        ELSE trimmed \o <<":"," ","a","n","y">>

\* the descriptors of an invocation once generateExtensionCode has run
Generated(i) ==
    IF pc[i] = "readExtension" THEN {methods[i][k] : k \in 1..Len(methods[i])}
    ELSE {}

\* checked on parameter lists whose commas all stand at the top level, so
\* that the tokens are the same however the list is split
C5_OptionalIffTopLevelEq ==
    \A i \in Invocations : \A m \in Generated(i) :
        LET tokens == split(m.params, ",")
        IN  (m.params # <<>> /\ Cardinality(TopLevel(m.params, ",")) = Len(tokens) - 1)
                => \A t \in 1..Len(tokens) :
                      trim(tokens[t]) # <<>>
                          => ParamEntry(tokens[t]) = ExpectedEntry(tokens[t])

(***************************************************************************)
(* C6: generateMethodSignature gives the name, `(`, the entries of the     *)
(* parameters joined by `, `, `)`, and then `: Promise<any>` exactly when  *)
(* isAsync is true and `: any` otherwise; an empty parameter list gives    *)
(* `name()`; getSetting with `key, defaultValue = null` and isAsync true   *)
(* gives `getSetting(key: any, defaultValue?: any): Promise<any>`.         *)
(***************************************************************************)
ReturnType(isAsync) == IF isAsync THEN ": Promise<any>" ELSE ": any"

C6_SignatureFormat ==
    \A i \in Invocations : \A m \in Generated(i) :
        LET signature == generateMethodSignature(m)
            entries == IF m.params = <<>> THEN <<>>
                       ELSE ParamEntries(split(m.params, ","))
        IN  /\ Str(signature) = Str(m.name) \o "(" \o Str(join(entries, <<",", " ">>))
                                \o ")" \o ReturnType(m.isAsync)
            /\ m.params = <<>> => Str(signature) = Str(m.name) \o "()" \o ReturnType(m.isAsync)
            /\ (Str(m.name) = "getSetting" /\ Str(m.params) = "key, defaultValue = null"
                    /\ m.isAsync)
                  => Str(signature) = "getSetting(key: any, defaultValue?: any): Promise<any>"
            /\ includes(newMethodsCode[i],
                        <<"s","i","g","n","a","t","u","r","e",":"," ","'">>
                        \o signature \o <<"'", ",", "\n">>)

\* the emitted block holds the signature of getSetting, asynchronous with a
\* default value, next to one of a synchronous method without parameters
C6_Witness ==
    \E i \in Invocations :
        /\ \E m \in Generated(i) :
              /\ Str(m.name) = "getSetting" /\ m.isAsync
              /\ Str(generateMethodSignature(m))
                    = "getSetting(key: any, defaultValue?: any): Promise<any>"
        /\ \E m \in Generated(i) :
              /\ m.params = <<>> /\ ~m.isAsync
              /\ Str(generateMethodSignature(m)) = Str(m.name) \o "(): any"

(***************************************************************************)
(* C7: updateExtensionFile changes the anchored span only: the text of the *)
(* consumer file before the anchor comment and the text after the closing  *)
(* `];` are the same before and after the patch.                           *)
(***************************************************************************)
\* where the anchor comment stands, and where the `];` that closes the list
AnchorAt(text) == IndexFrom(text, 1, AnchorComment)
ClosingAt(text) ==
    IF AnchorAt(text) = 0 THEN 0
    ELSE ClosingFrom(text, AnchorAt(text) + Len(AnchorComment))

BeforeAnchor(text) == SubSeq(text, 1, AnchorAt(text) - 1)
AfterClosing(text) == From(text, ClosingAt(text) + 2)

\* the invocation returned from updateExtensionFile
Patched(i) == pc[i] = "exited" /\ exitCode[i] = 0

C7_FrameUnchanged ==
    \A i \in Invocations :
        (Patched(i) /\ ClosingAt(extAtStart[i]) # 0)
            => LET before == BeforeAnchor(extAtStart[i])
                   after == AfterClosing(extAtStart[i])
               IN  /\ startsWith(extAtExit[i], before)
                   /\ endsWith(extAtExit[i], after)
                   /\ Len(extAtExit[i]) >= Len(before) + Len(after)

\* a patch changed a consumer text that has text on both sides of the span,
\* and a patched consumer text held a second `];` after the span
C7_Witness ==
    \E i \in Invocations :
        /\ Patched(i)
        /\ ClosingAt(extAtStart[i]) # 0
        /\ BeforeAnchor(extAtStart[i]) # <<>>
        /\ AfterClosing(extAtStart[i]) # <<>>
        /\ extAtExit[i] # extAtStart[i]
        /\ \E j \in Invocations :
              /\ Patched(j)
              /\ ClosingFrom(AfterClosing(extAtStart[j]), 1) # 0

(***************************************************************************)
(* C8: when the consumer file does not hold the anchor pattern, the        *)
(* missing anchor makes nothing throw: the invocation ends with code 0     *)
(* unless a file operation failed, and the consumer file is the same       *)
(* after the run as before it.                                             *)
(***************************************************************************)
C8_NoAnchorNoChange ==
    \A i \in Invocations :
        (pc[i] = "exited" /\ apiFile # Absent /\ thrown[i] = "none"
         /\ ~HasAnchor(extAtStart[i]))
            => /\ exitCode[i] = 0
               /\ "error" \notin {output[i][k] : k \in 1..Len(output[i])}
               /\ extAtExit[i] = extAtStart[i]

\* a run that extracted a method and found no anchor to patch
C8_Witness ==
    \E i \in Invocations :
        /\ Patched(i)
        /\ ~HasAnchor(extAtStart[i])
        /\ Len(methods[i]) >= 1
        /\ extAtStart[i] # <<>>

(***************************************************************************)
(* C9: when the source file does not exist as main starts, the invocation  *)
(* reports the error and exits non-zero, and the consumer file is neither  *)
(* read nor written.                                                       *)
(***************************************************************************)
Printed(i) == {output[i][k] : k \in 1..Len(output[i])}

C9_MissingSourceIsFatal ==
    apiFile = Absent =>
        \A i \in Invocations :
            /\ pc[i] \in {"idle", "exited"}
            /\ extensionContent[i] = <<>>
            /\ newMethodsCode[i] = <<>>
            /\ pc[i] = "exited" =>
                  /\ exitCode[i] = 1
                  /\ "not found" \in Printed(i)
                  /\ "success" \notin Printed(i)
                  /\ extAtExit[i] = extAtStart[i]
                  /\ extFile = extAtStart[i]

\* an invocation found no source file and exited beside a consumer file that
\* holds the anchor
C9_Witness ==
    /\ apiFile = Absent
    /\ pc[1] = "exited"
    /\ HasAnchor(extFile)

(***************************************************************************)
(* C10: an invocation exits with 0 only after it read the source,          *)
(* extracted, emitted and wrote the consumer file; when reading the        *)
(* source, reading the consumer or writing the consumer throws, it exits   *)
(* non-zero, prints an error message and does not report success.          *)
(***************************************************************************)
C10_ZeroOnlyAfterAllSteps ==
    \A i \in Invocations :
        pc[i] = "exited" =>
            /\ exitCode[i] = 0 =>
                  /\ thrown[i] = "none"
                  /\ apiFile # Absent
                  /\ apiContent[i] = apiFile
                  /\ methods[i] = extractMethodsFromApi(apiContent[i])
                  /\ newMethodsCode[i] = generateExtensionCode(methods[i])
                  /\ extensionContent[i] = extAtStart[i]
                  /\ extAtExit[i] = ReplaceAnchored(extensionContent[i], newMethodsCode[i])
                  /\ output[i] = <<"reading", "extracting", "found", "generating",
                                   "updating", "success", "rebuild hint">>
            /\ thrown[i] # "none" =>
                  /\ exitCode[i] = 1
                  /\ "error" \in Printed(i)
                  /\ "success" \notin Printed(i)
            /\ "success" \in Printed(i) => exitCode[i] = 0

\* the write of an invocation threw, after an invocation that extracted a
\* method and went through every step
C10_Witness ==
    \E i \in Invocations :
        /\ pc[i] = "exited"
        /\ thrown[i] = "writeExtension"
        /\ exitCode[i] = 1
        /\ \E j \in Invocations : Patched(j) /\ Len(methods[j]) >= 1

(***************************************************************************)
(* C11: a run whose extraction gives no descriptor is not an error: it     *)
(* replaces the anchored span by the anchor comment,                       *)
(* `const sypnexApiMethods = [` and `];` without an element, and exits     *)
(* with 0.                                                                 *)
(***************************************************************************)
EmptyBlock ==
    "// Sypnex API method definitions (auto-generated)\nconst sypnexApiMethods = [\n\n];"

\* the invocation is over, nothing was extracted and no file operation failed
ExtractedNothing(i) ==
    /\ pc[i] = "exited"
    /\ apiFile # Absent
    /\ thrown[i] = "none"
    /\ methods[i] = <<>>

C11_EmptyListIsPatched ==
    \A i \in Invocations :
        ExtractedNothing(i) =>
            /\ exitCode[i] = 0
            /\ "error" \notin Printed(i)
            /\ "success" \in Printed(i)
            /\ ClosingAt(extAtStart[i]) # 0 =>
                  Str(extAtExit[i]) = Str(BeforeAnchor(extAtStart[i])) \o EmptyBlock
                                      \o Str(AfterClosing(extAtStart[i]))

\* the block with an element was replaced by the block without one, for a
\* source text that is not empty
C11_Witness ==
    \E i \in Invocations :
        /\ ExtractedNothing(i)
        /\ apiContent[i] # <<>>
        /\ extAtStart[i] = ConsumerAnchored
        /\ extAtExit[i] # extAtStart[i]
        /\ includes(extAtExit[i], <<"[", "\n", "\n", "]", ";">>)

RECURSIVE BackslashesBefore(_, _)
BackslashesBefore(s, p) ==
    IF p > 1 /\ s[p - 1] = "\\" THEN 1 + BackslashesBefore(s, p - 1) ELSE 0

SafeInSingleQuotes(text) ==
    /\ \A p \in 1..Len(text) : text[p] \notin {"\n", "\r"}
    /\ \A p \in 1..Len(text) :
          text[p] = "'" => BackslashesBefore(text, p) % 2 = 1
    /\ BackslashesBefore(text, Len(text) + 1) % 2 = 0

C13_DescriptionQuoteSafe ==
    \A i \in Invocations : \A m \in Generated(i) :
        /\ SafeInSingleQuotes(m.description)
        /\ includes(newMethodsCode[i],
                    <<"d","e","s","c","r","i","p","t","i","o","n",":"," ","'">>
                    \o m.description \o <<"'", ",", "\n">>)

(***************************************************************************)
(* C14: the list is the matches of the JSDoc-paired pass in source order   *)
(* followed by the matches of the bare pass in source order, of which each *)
(* name keeps its first occurrence only; a later occurrence does not move, *)
(* replace or reorder a descriptor that stands in the list.                *)
(***************************************************************************)
\* the matches of both passes, one pass after the other, as the loops meet them
AllMatches(i) == JsdocMatches(FullContent(i), 1) \o BareMatches(FullContent(i))

\* the occurrences the list keeps: of a name the filter lets through, and
\* the first of that name
KeptOccurrences(all) ==
    {k \in 1..Len(all) :
        /\ IsIdentifier(all[k].name)
        /\ ~IsExcludedName(all[k].name)
        /\ \A j \in 1..(k - 1) : all[j].name # all[k].name}

\* the k-th smallest element of a set of numbers
Nth(S, k) == CHOOSE x \in S : Cardinality({y \in S : y <= x}) = k

FirstOccurrenceNames(all) ==
    [k \in 1..Cardinality(KeptOccurrences(all)) |->
        all[Nth(KeptOccurrences(all), k)].name]

NameList(list) == [k \in 1..Len(list) |-> list[k].name]

AfterSypnexApiDot ==
    /\ character >= 10
    /\ Str(SubSeq(lineText, character - 9, character)) = "sypnexAPI."

\* the claim as stated: the documentation is the description
C15_OneItemPerEntry ==
    completionItems # NotAsked =>
        IF ~AfterSypnexApiDot THEN completionItems = Undefined
        ELSE /\ completionItems.returned = "items"
             /\ Len(completionItems.items) = 65
             /\ Len(sypnexApiMethods) = 65
             /\ \A k \in 1..65 :
                   /\ completionItems.items[k].label = sypnexApiMethods[k].name
                   /\ completionItems.items[k].detail = sypnexApiMethods[k].signature
                   /\ completionItems.items[k].documentation
                         = sypnexApiMethods[k].description

\* C15 as amended: the documentation is the description, followed for an
\* asynchronous entry by an empty line and `**Returns:** Promise`
C15_OneItemPerEntryReturnsNote ==
    completionItems # NotAsked =>
        IF ~AfterSypnexApiDot THEN completionItems = Undefined
        ELSE /\ completionItems.returned = "items"
             /\ Len(completionItems.items) = 65
             /\ Len(sypnexApiMethods) = 65
             /\ \A k \in 1..65 :
                   /\ completionItems.items[k].label = sypnexApiMethods[k].name
                   /\ completionItems.items[k].detail = sypnexApiMethods[k].signature
                   /\ completionItems.items[k].documentation
                         = IF sypnexApiMethods[k].isAsync
                           THEN sypnexApiMethods[k].description
                                \o "\n\n**Returns:** Promise"
                           ELSE sypnexApiMethods[k].description

\* the items were returned with the cursor just after `sypnexAPI.` in the
\* middle of a line
C15_Witness ==
    /\ lineText = DocCall
    /\ character = 16
    /\ completionItems.returned = "items"
    /\ completionItems.items[1].label = "connectSocket"
    /\ completionItems.items[65].label = "updateBreadcrumb"

(***************************************************************************)
(* C16: generateMethodSignature splits the parameter text at the commas    *)
(* that stand outside every bracket, brace and parenthesis only, so that a *)
(* comma inside a default value starts no parameter and the signature has  *)
(* one entry for each top-level parameter.                                 *)
(***************************************************************************)
\* the parameter text cut at its top-level commas
TopLevelSplit(text) ==
    LET commas == TopLevel(text, ",")
        n == Cardinality(commas)
    IN  [k \in 1..(n + 1) |->
            SubSeq(text,
                   IF k = 1 THEN 1 ELSE Nth(commas, k - 1) + 1,
                   IF k = n + 1 THEN Len(text) ELSE Nth(commas, k) - 1)]

C16_TopLevelCommasOnly ==
    \A i \in Invocations : \A m \in Generated(i) :
        m.params # <<>> =>
            generateMethodSignature(m)
                = m.name \o <<"(">>
                  \o join(ParamEntries(TopLevelSplit(m.params)), <<",", " ">>)
                  \o <<")">>
                  \o (IF m.isAsync
                      THEN <<":"," ","P","r","o","m","i","s","e","<","a","n","y",">">>
                      ELSE <<":"," ","a","n","y">>)

(***************************************************************************)
(* C17: the documentation block of a descriptor of the JSDoc-paired pass   *)
(* is the one comment that stands just before the definition: it starts at *)
(* the `/**` of that comment and ends at the first `*/` after it, so that  *)
(* it spans no earlier comment and the description is not taken from the   *)
(* comment of another declaration.                                         *)
(***************************************************************************)
\* the text is one comment: its first `*/` is its end, and it opens once
IsSingleComment(jsdoc) ==
    /\ startsWith(jsdoc, DocOpen)
    /\ IndexFrom(jsdoc, 4, DocClose) = Len(jsdoc) - 1
    /\ IndexFrom(jsdoc, 2, DocOpen) = 0

C17_SingleNearestComment ==
    \A i \in Invocations : \A k \in 1..Len(methods[i]) :
        methods[i][k].jsdoc # Null =>
            /\ IsSingleComment(methods[i][k].jsdoc)
            /\ includes(FullContent(i), methods[i][k].jsdoc)

(***************************************************************************)
(* C18: the description of a descriptor of the JSDoc-paired pass is the    *)
(* first line of the comment that does not start with `@`, taken whole,    *)
(* trimmed and with its white space collapsed; the fallback is used only   *)
(* when the comment has no such line.                                      *)
(***************************************************************************)
\* a line of the comment without the `*` that leads it
CommentLine(line) ==
    LET t == trim(line)
    IN  IF t # <<>> /\ t[1] = "*" THEN trim(Tail(t)) ELSE t

\* the lines between `/**` and `*/`
CommentLines(jsdoc) ==
    LET ls == split(SubSeq(jsdoc, 4, Len(jsdoc) - 2), NL)
    IN  [k \in 1..Len(ls) |-> CommentLine(ls[k])]

\* the description the claim gives: the first line that is not blank and
\* does not start with `@`
FirstNonTagLine(methodName, jsdoc) ==
    LET ls == CommentLines(jsdoc)
        k == First({j \in 1..Len(ls) : ls[j] # <<>> /\ ls[j][1] # "@"})
    IN  IF k = 0 THEN generateMethodDescription(methodName)
        ELSE NormalizeSpace(EscapeQuotes(ls[k]))

\* checked on the descriptors whose block is one comment
C18_FirstNonTagLine ==
    \A i \in Invocations : \A k \in 1..Len(methods[i]) :
        LET m == methods[i][k]
        IN  (m.jsdoc # Null /\ IsSingleComment(m.jsdoc))
                => m.description = FirstNonTagLine(m.name, m.jsdoc)

(***************************************************************************)
(* C19: generateMethodDescription gives the text of the table for a name   *)
(* that is a key of the table, and for every other name exactly            *)
(* `<name> method from Sypnex API`; what it gives is always a string.      *)
(***************************************************************************)
TableOrGeneric(methodName) ==
    IF Str(methodName) \in DOMAIN descriptions
    THEN descriptions[Str(methodName)]
    ELSE methodName \o GenericSuffix

C19_TableOrGenericPhrase ==
    \A i \in Invocations : \A k \in 1..Len(methods[i]) :
        LET m == methods[i][k]
        IN  /\ generateMethodDescription(m.name) = TableOrGeneric(m.name)
            /\ m.jsdoc = Null => m.description = TableOrGeneric(m.name)

(***************************************************************************)
(* C20: when the anchor is found, the text that takes the place of the     *)
(* anchored span in the consumer file is, byte for byte, the block         *)
(* generateExtensionCode gave, also when the block holds a `$` followed by *)
(* `&`, `$`, a grave accent, a quote or a digit.                           *)
(***************************************************************************)
C20_BlockWrittenAsEmitted ==
    \A i \in Invocations :
        (Patched(i) /\ ClosingAt(extAtStart[i]) # 0)
            => extAtExit[i] = BeforeAnchor(extAtStart[i])
                              \o newMethodsCode[i]
                              \o AfterClosing(extAtStart[i])

(***************************************************************************)
(* C21: within one invocation the steps follow each other in one order:    *)
(* read the source, extract, emit, read the consumer, write the consumer.  *)
(* The source is read once, the consumer is written at most once and not   *)
(* before extraction and emission are over, and no step is taken again.    *)
(***************************************************************************)
\* the place of a step in main
StepRank(step) ==
    CASE step = "idle" -> 0
      [] step = "readApi" -> 1
      [] step = "jsdocPass" -> 2
      [] step = "barePass" -> 3
      [] step = "generate" -> 4
      [] step = "readExtension" -> 5
      [] step = "writeExtension" -> 6
      [] step = "exited" -> 7

\* invocation i takes a step: to the next one in the order, or out of main
StepsForward(i) ==
    pc'[i] # pc[i] =>
        \/ StepRank(pc'[i]) = StepRank(pc[i]) + 1
        \/ pc'[i] = "exited" /\ StepRank(pc[i]) \in {0, 1, 5, 6}

\* invocation i reads the source in this step, writes the consumer in this step
ReadsSource(i) == pc[i] = "readApi" /\ pc'[i] = "jsdocPass"
WritesConsumer(i) == pc[i] = "writeExtension" /\ pc'[i] = "exited"

C21_FixedStepOrder ==
    [][\A i \in Invocations :
          /\ StepsForward(i)
          /\ apiContent'[i] # apiContent[i] => ReadsSource(i)
          /\ ReadsSource(i) => apiContent[i] = <<>> /\ methods[i] = <<>>
          /\ extensionContent'[i] # extensionContent[i] =>
                pc[i] = "readExtension" /\ pc'[i] = "writeExtension"
          /\ extFile' # extFile => \E j \in Invocations : WritesConsumer(j)
          /\ WritesConsumer(i) =>
                /\ extAtExit[i] = <<>>
                /\ exitCode'[i] = 0 =>
                      /\ methods[i] = extractMethodsFromApi(apiContent[i])
                      /\ newMethodsCode[i] = generateExtensionCode(methods[i])
                      /\ extensionContent[i] = extAtStart[i]]_vars

\* an invocation went through every step and its write changed the consumer
\* file, after which the next invocation read the source
C21_Witness ==
    /\ pc[1] = "exited" /\ exitCode[1] = 0
    /\ extAtExit[1] # extAtStart[1]
    /\ Len(output[1]) = 7
    /\ pc[2] = "jsdocPass"
    /\ apiContent[2] = apiFile

(***************************************************************************)
(* C22: when invocations run at the same time on one consumer file, the    *)
(* content of the file in the end is what the invocation that wrote last   *)
(* wrote, neither merged nor torn, and with an unchanged source it is the  *)
(* content one invocation alone produces.                                  *)
(***************************************************************************)
\* the text invocation i hands to fs.writeFileSync
UpdatedContent(i) == ReplaceAnchored(extensionContent[i], newMethodsCode[i])

\* what one invocation alone makes of the consumer file
SingleRunContent ==
    ReplaceAnchored(ConsumerAnchored,
                    generateExtensionCode(extractMethodsFromApi(apiFile)))

\* invocation i ends its write when every other invocation is over
WritesLast(i) ==
    /\ pc[i] = "writing"
    /\ pc'[i] = "exited"
    /\ \A j \in Invocations \ {i} : pc[j] = "exited"

C22_LastWriterWins ==
    [][\A i \in Invocations :
          WritesLast(i) => /\ extFile' = UpdatedContent(i)
                           /\ extFile' = SingleRunContent]_vars

(***************************************************************************)
(* C23: the deny-list of the bare scanner skips a line for an assignment   *)
(* operator only when that `=` belongs neither to an arrow function nor to *)
(* a default value of a parameter; a definition line with a default value  *)
(* is not skipped, and a comparison operator is no assignment.             *)
(***************************************************************************)
\* the line is denied by a rule other than the one on `=`
DeniedOtherwise(line) ==
    \/ \E word \in {<<"i","f">>, <<"f","o","r">>, <<"w","h","i","l","e">>,
                    <<"c","a","t","c","h">>, <<"t","r","y">>,
                    <<"s","w","i","t","c","h">>, <<"/","/">>, <<"/","*">>} :
          startsWith(line, word)
    \/ includes(line, <<"O","b","j","e","c","t",".","a","s","s","i","g","n">>)
    \/ includes(line, <<"c","o","n","s","o","l","e",".">>)
    \/ (includes(line, <<":">>) /\ ~includes(line, <<"(">>))

\* an `=` outside every parenthesis that is part of no `=>` and of no
\* comparison operator
IsAssignmentAt(line, p) ==
    /\ line[p] = "="
    /\ Depth(line, p) = 0
    /\ ~(p < Len(line) /\ line[p + 1] \in {">", "="})
    /\ ~(p > 1 /\ line[p - 1] \in {"=", "!", "<", ">"})

HasAssignment(line) == \E p \in 1..Len(line) : IsAssignmentAt(line, p)

\* the trimmed lines of the source of invocation i, once its passes are over
ScannedLines(i) ==
    IF pc[i] = "generate"
    THEN {trim(split(FullContent(i), NL)[k]) : k \in 1..Len(split(FullContent(i), NL))}
    ELSE {}

C23_SkipsTrueAssignmentsOnly ==
    \A i \in Invocations : \A line \in ScannedLines(i) :
        ~DeniedOtherwise(line) => (Skipped(line) <=> HasAssignment(line))

(***************************************************************************)
(* C24: every bare definition of the source, `name(params) {` without a    *)
(* documentation comment before it and with a name the filter accepts,     *)
(* gives the list a descriptor of that name, with isAsync as the           *)
(* definition is marked and the fallback description, whatever the name    *)
(* begins with and whatever the lines around it are.                       *)
(***************************************************************************)
\* the bare definitions that start a line of a source without any
\* documentation comment
BareDefinitions(i) ==
    IF pc[i] # "generate" \/ includes(FullContent(i), DocOpen) THEN {}
    ELSE {MethodAt(line, 1) : line \in {l \in ScannedLines(i) : MethodAt(l, 1).found}}

C24_BareDefinitionsAreListed ==
    \A i \in Invocations : \A def \in BareDefinitions(i) :
        (IsIdentifier(def.name) /\ ~IsExcludedName(def.name))
            => \E k \in 1..Len(methods[i]) :
                  /\ methods[i][k].name = def.name
                  /\ methods[i][k].description = generateMethodDescription(def.name)
                  /\ \E other \in BareDefinitions(i) :
                        /\ other.name = def.name
                        /\ other.isAsync = methods[i][k].isAsync

(***************************************************************************)
(* C25: the bare scanner is line-local: the pattern is tried from the      *)
(* lines the deny-list lets through only, so that a definition on a denied *)
(* line gives no descriptor of the bare pass, and whether a line gives a   *)
(* descriptor does not depend on the lines before it.                      *)
(***************************************************************************)
\* the names the pattern finds in the line taken alone
NamesOnLine(line) == NamesOf(SimpleMatches(line, 1))

\* the names of the descriptors the bare pass pushed
BarePassNames(i) ==
    {methods[i][k].name : k \in {j \in 1..Len(methods[i]) : methods[i][j].jsdoc = Null}}

\* a name found on denied lines only has no descriptor of the bare pass
C25_DeniedLinesGiveNothing ==
    \A i \in Invocations : \A line \in ScannedLines(i) :
        Skipped(line) =>
            \A n \in NamesOnLine(line) :
                (\A other \in ScannedLines(i) : n \in NamesOnLine(other) => Skipped(other))
                    => n \notin BarePassNames(i)

(***************************************************************************)
(* C26: in both passes the isAsync field of a descriptor tells whether the *)
(* definition it was extracted from is preceded by the `async` marker: a   *)
(* descriptor of the list whose name is defined in the source carries the  *)
(* marking of one of these definitions, and a name whose every definition  *)
(* is written `async name(...) {` is never listed with isAsync false.      *)
(***************************************************************************)
\* the positions of source s where a definition of the whole name n starts
DefinitionPositions(s, n) ==
    {p \in 1..Len(s) :
        /\ StartsAt(s, p, n)
        /\ (p = 1 \/ ~IsIdChar(s[p - 1]))
        /\ DefinitionAt(s, p, FALSE).found
        /\ DefinitionAt(s, p, FALSE).name = n}

\* the definition at p is written after the word `async` and white space
AsyncBefore(s, p) ==
    LET c == SkipSpaceBack(s, p - 1)
    IN  c < p - 1 /\ c >= 5 /\ SubSeq(s, c - 4, c) = Async

RECURSIVE ParenClose(_, _, _)
ParenClose(s, p, d) ==
    IF p > Len(s) THEN 0
    ELSE IF s[p] = "(" THEN ParenClose(s, p + 1, d + 1)
    ELSE IF s[p] = ")" THEN (IF d = 0 THEN p ELSE ParenClose(s, p + 1, d - 1))
    ELSE ParenClose(s, p + 1, d)

\* the definitions written in source s, `name(list) {`, the list read to the
\* parenthesis that closes it
WrittenDefinitions(s) ==
    {[name |-> SubSeq(s, p, IdEnd(s, p) - 1),
      params |-> SubSeq(s, SkipSpace(s, IdEnd(s, p)) + 1,
                        ParenClose(s, SkipSpace(s, IdEnd(s, p)) + 1, 0) - 1)] :
        p \in {q \in 1..Len(s) :
                 /\ IsIdStart(s[q])
                 /\ (q = 1 \/ ~IsIdChar(s[q - 1]))
                 /\ StartsAt(s, SkipSpace(s, IdEnd(s, q)), <<"(">>)
                 /\ ParenClose(s, SkipSpace(s, IdEnd(s, q)) + 1, 0) # 0
                 /\ StartsAt(s, SkipSpace(s, ParenClose(s, SkipSpace(s, IdEnd(s, q)) + 1, 0) + 1),
                             <<"{">>)}}

\* a list with a default value and a character the comma split or the
\* pattern's `[^)]*` does not expect
IsMalformedList(params) ==
    /\ includes(params, <<"=">>)
    /\ \E k \in 1..Len(params) :
          params[k] \in {"{", "}", "[", "]", "(", ")", "'", "\""}

MalformedDefinitions(i) ==
    {d \in WrittenDefinitions(FullContent(i)) :
        IsMalformedList(d.params) /\ IsIdentifier(d.name) /\ ~IsExcludedName(d.name)}

C27_MalformedListsDegradeOnly ==
    \A i \in Invocations : \A d \in MalformedDefinitions(i) :
        /\ exitCode[i] = 1 => thrown[i] \in {"readExtension", "writeExtension"}
        /\ Patched(i) =>
              extAtExit[i] = ReplaceAnchored(extAtStart[i], generateExtensionCode(methods[i]))
        /\ AfterBarePass(i) => Holding(methods[i], d.name) # {}

(***************************************************************************)
(* C28: every name of the final list is the complete identifier of a       *)
(* definition of the source: no descriptor is named by a proper suffix of  *)
(* an identifier, also when a one-line documentation comment and its       *)
(* definition lie in one window of the second pass.                        *)
(***************************************************************************)
C28_NamesAreWholeIdentifiers ==
    \A i \in Invocations :
        AfterBarePass(i) =>
            \A k \in 1..Len(methods[i]) :
                DefinitionPositions(FullContent(i), methods[i][k].name) # {}

(***************************************************************************)
(* C29: every run that patches the consumer file keeps the anchor as it    *)
(* found it: a file that held the anchor before the run holds it after the *)
(* run, and the span the pattern matches in the file the run leaves, the   *)
(* span the next run replaces, is exactly the block this run emitted; a    *)
(* file without the anchor before the run is without it after the run.     *)
(***************************************************************************)
\* the span of text the anchor pattern matches
AnchoredSpan(text) ==
    SubSeq(text, AnchorMatch(text, 1).index, AnchorMatch(text, 1).end - 1)

C29_AnchorPreserved ==
    \A i \in Invocations :
        Patched(i) =>
            IF HasAnchor(extAtStart[i])
            THEN /\ HasAnchor(extAtExit[i])
                 /\ AnchoredSpan(extAtExit[i]) = newMethodsCode[i]
            ELSE ~HasAnchor(extAtExit[i])

(***************************************************************************)
(* C30: the `name` and the `signature` generateExtensionCode writes        *)
(* between single quotes are well-formed literals: for every descriptor    *)
(* the extractor gives, neither holds a single quote that is not escaped,  *)
(* a backslash that opens the closing quote, or a line break.              *)
(***************************************************************************)
C30_NameAndSignatureQuoteSafe ==
    \A i \in Invocations : \A m \in Generated(i) :
        /\ SafeInSingleQuotes(m.name)
        /\ SafeInSingleQuotes(generateMethodSignature(m))

====
